---- MODULE Spec2Model ----
(***************************************************************************)
(* A model of the route planner of geo-reader (src/queries/plan_routes).   *)
(*                                                                         *)
(* Coordinates and distances.  The program works on f64 degrees.  The      *)
(* model works on integers: one unit of a coordinate is 0.001 degree, so   *)
(* the thresholds 0.05, 0.01 and 0.005 are 50, 10 and 5.  Every comparison *)
(* of a distance with a threshold or with another distance is made exactly *)
(* on squared distances.  A distance that is stored in a value             *)
(* (distance_to_route, segment_distance, total_distance) is kept in units  *)
(* of 0.0001 degree, rounded down.                                         *)
(*                                                                         *)
(* Option<T> is modelled by a sequence: None is << >>, Some(v) is <<v>>.   *)
(***************************************************************************)
EXTENDS Integers, Sequences, FiniteSets, TLC

None == << >>
Some(v) == <<v>>

(***************************************************************************)
(* Bounds of the model.                                                    *)
(***************************************************************************)
\* routes of a dataset
MaxRoutes == 3
\* largest max_transfers a query passes (the smallest is -1)
MaxTransfersInput == 2
\* largest size of the worker pool (num_cpus::get())
MaxWorkers == 2
\* the constructions of SpatialSearch on one cache directory
MaxConstructions == 2
\* largest number of routes of a dataset constructed through the cache
MaxCacheRoutes == 2
\* largest number of departments of a collection
MaxDepartments == 2
\* largest number of routes of a dataset of the planner
MaxPlanRoutes == 3
\* largest transfers_count of a plan scored on its own
MaxScoreTransfers == 5

(***************************************************************************)
(* Program constants, in model units.                                      *)
(***************************************************************************)
\* find_best_transfer: find_near_transfer(route1, route2, 0.005)
NearThreshold == 5
\* find_best_transfer: find_proximate_transfer(route1, route2, 0.01)
ProximateThreshold == 10
\* find_potential_intersections: the bounding box is widened by 0.01
BBoxMargin == 10
\* PlanningConfig::default: max_route_distance 0.05
DefaultMaxRouteDistance == 50
\* find_routes_to_destination: take(3)
SearchResultCap == 3
\* validate_point: min_distance < 0.01
NearBoundaryThreshold == 10

(***************************************************************************)
(* Arithmetic.                                                             *)
(***************************************************************************)
RECURSIVE ISqrt(_)
ISqrt(n) ==
  IF n < 2 THEN n
  ELSE LET s == 2 * ISqrt(n \div 4)
       IN  IF (s + 1) * (s + 1) > n THEN s ELSE s + 1

\* the squared distance of two points (Point::euclidean_distance, squared)
DistSq(p, q) == (p[1] - q[1]) * (p[1] - q[1]) + (p[2] - q[2]) * (p[2] - q[2])

\* a stored distance, from its square: units of 0.0001 degree
Distance(d2) == ISqrt(d2 * 100)

Dot(a, b, p) == (b[1] - a[1]) * (p[1] - a[1]) + (b[2] - a[2]) * (p[2] - a[2])
Cross(a, b, p) == (b[1] - a[1]) * (p[2] - a[2]) - (b[2] - a[2]) * (p[1] - a[1])

\* the squared distance of point p to the segment a-b, rounded down
SegDistSq(a, b, p) ==
  LET len2 == DistSq(a, b)
      t    == Dot(a, b, p)
  IN  IF len2 = 0 \/ t <= 0 THEN DistSq(a, p)
      ELSE IF t >= len2 THEN DistSq(b, p)
      ELSE (Cross(a, b, p) * Cross(a, b, p)) \div len2

\* whether p is within distance d of the segment a-b (exact)
SegWithin(a, b, p, d) ==
  LET len2 == DistSq(a, b)
      t    == Dot(a, b, p)
  IN  IF len2 = 0 \/ t <= 0 THEN DistSq(a, p) <= d * d
      ELSE IF t >= len2 THEN DistSq(b, p) <= d * d
      ELSE Cross(a, b, p) * Cross(a, b, p) <= d * d * len2

SetMin(S) == CHOOSE m \in S : \A x \in S : m <= x

\* the first n elements of s (Iterator::take)
Take(s, n) == SubSeq(s, 1, IF Len(s) < n THEN Len(s) ELSE n)

(***************************************************************************)
(* The data.  A dataset is a set of at most MaxRoutes routes of the pool   *)
(* below, with the stops of the stop file.  Coordinates are offsets from   *)
(* (-89.200, 13.700).  Routes 1 and 2 are those of the scenario with one   *)
(* shared stop; route 3 has a stop 0.003 from it; route 4 comes within     *)
(* 0.008 of it with its polyline only; route 5 is one long segment, far    *)
(* from the others, with a stop at the place of a stop of route 4.  Routes *)
(* 3 and 4 each have a stop whose Latitud and Longitud are absent.         *)
(***************************************************************************)
P(dx, dy) == <<-89200 + dx, 13700 + dy>>

PoolCodes == {"1", "2", "3", "4", "5"}

RouteCoords(code) ==
  CASE code = "1" -> <<P(-20, -10), P(0, 0)>>
    [] code = "2" -> <<P(0, 0), P(20, 10)>>
    [] code = "3" -> <<P(5, -5), P(25, -10)>>
    [] code = "4" -> <<P(8, 0), P(40, 0)>>
    [] code = "5" -> <<P(-60, 60), P(60, 60)>>

Stop(code, lon, lat) == [ruta |-> code, longitud |-> lon, latitud |-> lat]

StopAt(code, p) == Stop(code, Some(p[1]), Some(p[2]))

\* the stop file, in its order
InputStops ==
  << StopAt("1", P(0, 0)),
     StopAt("2", P(0, 0)),
     StopAt("3", P(3, 0)),
     Stop("3", None, None),
     StopAt("4", P(40, 0)),
     Stop("4", None, None),
     StopAt("5", P(40, 0)) >>

\* SpatialSearch.bus_stops: the stops grouped by route code, in file order
bus_stops(code) == SelectSeq(InputStops, LAMBDA s : s.ruta = code)

\* the sequences without repetition of all the elements of S
Perms(S) ==
  {f \in [1..Cardinality(S) -> S] : \A i, j \in 1..Cardinality(S) : f[i] = f[j] => i = j}

(***************************************************************************)
(* Transfer points.                                                        *)
(***************************************************************************)
TransferPoint(loc, stop, dist, type, from, to) ==
  [location |-> loc, bus_stop |-> stop, distance_to_route |-> dist,
   transfer_type |-> type, from_route |-> from, to_route |-> to]

\* the outcome of a function returning Option<TransferPoint>, or panicking
Found(tp) == [panic |-> FALSE, val |-> Some(tp)]
NotFound == [panic |-> FALSE, val |-> None]
Panicked == [panic |-> TRUE, val |-> None]

\* the pairs (i, j) in the order of the nested loops over two sequences
LexLess(a, b) == a[1] < b[1] \/ (a[1] = b[1] /\ a[2] < b[2])
FirstPair(S) == CHOOSE a \in S : \A b \in S : a = b \/ LexLess(a, b)

\* find_direct_transfer comparing a latitude with a longitude
find_direct_transfer_swapped(r1, r2) ==
  LET stops1 == bus_stops(r1)
      stops2 == bus_stops(r2)
      eq == {ij \in (1..Len(stops1)) \X (1..Len(stops2)) :
               /\ stops1[ij[1]].latitud = stops2[ij[2]].longitud
               /\ stops1[ij[1]].longitud = stops2[ij[2]].latitud}
  IN  IF eq = {} THEN NotFound
      ELSE LET stop1 == stops1[FirstPair(eq)[1]]
           IN  IF stop1.longitud = None \/ stop1.latitud = None
               THEN Panicked
               ELSE Found(TransferPoint(<<stop1.longitud[1], stop1.latitud[1]>>,
                                        Some(stop1), 0, "Direct", r1, r2))

find_direct_transfer(r1, r2) ==
  LET stops1 == bus_stops(r1)
      stops2 == bus_stops(r2)
      eq == {ij \in (1..Len(stops1)) \X (1..Len(stops2)) :
               /\ stops1[ij[1]].latitud = stops2[ij[2]].latitud
               /\ stops1[ij[1]].longitud = stops2[ij[2]].longitud}
  IN  IF eq = {} THEN NotFound
      ELSE LET stop1 == stops1[FirstPair(eq)[1]]
           IN  IF stop1.longitud = None \/ stop1.latitud = None
               THEN Panicked   \* Option::unwrap on None
               ELSE Found(TransferPoint(<<stop1.longitud[1], stop1.latitud[1]>>,
                                        Some(stop1), 0, "Direct", r1, r2))

\* the nested loops of find_near_transfer from pair number k on; min2 is the
\* square of min_distance
RECURSIVE NearLoop(_, _, _, _, _)
NearLoop(r1, r2, k, min2, best) ==
  LET stops1 == bus_stops(r1)
      stops2 == bus_stops(r2)
  IN  IF k > Len(stops1) * Len(stops2) THEN best
      ELSE LET stop1 == stops1[((k - 1) \div Len(stops2)) + 1]
               stop2 == stops2[((k - 1) % Len(stops2)) + 1]
           IN  IF stop1.longitud # None /\ stop1.latitud # None
                  /\ stop2.longitud # None /\ stop2.latitud # None
               THEN LET point1 == <<stop1.longitud[1], stop1.latitud[1]>>
                        point2 == <<stop2.longitud[1], stop2.latitud[1]>>
                        d2 == DistSq(point1, point2)
                    IN  IF d2 < min2
                        THEN NearLoop(r1, r2, k + 1, d2,
                               Some(TransferPoint(point1, Some(stop1), Distance(d2),
                                                  "Near", r1, r2)))
                        ELSE NearLoop(r1, r2, k + 1, min2, best)
               ELSE NearLoop(r1, r2, k + 1, min2, best)

find_near_transfer(r1, r2, max_distance) ==
  [panic |-> FALSE, val |-> NearLoop(r1, r2, 1, max_distance * max_distance, None)]

RECURSIVE ProximateLoop(_, _, _, _, _)
ProximateLoop(r1, r2, k, min2, best) ==
  LET coords1 == RouteCoords(r1)
      coords2 == RouteCoords(r2)
  IN  IF k > Len(coords1) * Len(coords2) THEN best
      ELSE LET point1 == coords1[((k - 1) \div Len(coords2)) + 1]
               point2 == coords2[((k - 1) % Len(coords2)) + 1]
               d2 == DistSq(point1, point2)
           IN  IF d2 < min2
               THEN ProximateLoop(r1, r2, k + 1, d2,
                      Some(TransferPoint(point1, None, Distance(d2),
                                         "Proximate", r1, r2)))
               ELSE ProximateLoop(r1, r2, k + 1, min2, best)

find_proximate_transfer(r1, r2, max_distance) ==
  [panic |-> FALSE, val |-> ProximateLoop(r1, r2, 1, max_distance * max_distance, None)]

\* find_best_transfer trying the tiers from the widest
find_best_transfer_widest_first(r1, r2) ==
  LET proximate == find_proximate_transfer(r1, r2, ProximateThreshold)
  IN  IF proximate.val # None THEN proximate
      ELSE LET near == find_near_transfer(r1, r2, NearThreshold)
           IN  IF near.val # None THEN near
               ELSE find_direct_transfer(r1, r2)

find_best_transfer(r1, r2) ==
  LET direct == find_direct_transfer(r1, r2)
  IN  IF direct.panic \/ direct.val # None THEN direct
      ELSE LET near == find_near_transfer(r1, r2, NearThreshold)
           IN  IF near.val # None THEN near
               ELSE find_proximate_transfer(r1, r2, ProximateThreshold)

\* the codes of the routes with a vertex in the widened bounding box of
\* route `code`, in the iteration order `order` of the route table
find_potential_intersections(code, order) ==
  LET coords == RouteCoords(code)
      xs == {coords[i][1] : i \in 1..Len(coords)}
      ys == {coords[i][2] : i \in 1..Len(coords)}
      min_x == SetMin(xs) - BBoxMargin
      min_y == SetMin(ys) - BBoxMargin
      max_x == -SetMin({-x : x \in xs}) + BBoxMargin
      max_y == -SetMin({-y : y \in ys}) + BBoxMargin
      intersects(other) ==
        \E i \in 1..Len(RouteCoords(other)) :
          LET coord == RouteCoords(other)[i]
          IN  coord[1] >= min_x /\ coord[1] <= max_x
              /\ coord[2] >= min_y /\ coord[2] <= max_y
  IN  SelectSeq(order, intersects)

\* the closure comparing a route with itself too
RECURSIVE RouteIntersections_with_self(_, _, _)
RouteIntersections_with_self(code, candidates, acc) ==
  IF candidates = << >> THEN [panic |-> FALSE, list |-> acc]
  ELSE LET transfer == find_best_transfer(code, Head(candidates))
       IN  IF transfer.panic THEN [panic |-> TRUE, list |-> << >>]
           ELSE IF transfer.val # None
           THEN RouteIntersections_with_self(code, Tail(candidates),
                                             Append(acc, transfer.val[1]))
           ELSE RouteIntersections_with_self(code, Tail(candidates), acc)

\* the closure of precalculate_intersections for one route: the transfers
\* towards the candidates, in their order
RECURSIVE RouteIntersections(_, _, _)
RouteIntersections(code, candidates, acc) ==
  IF candidates = << >> THEN [panic |-> FALSE, list |-> acc]
  ELSE LET other_code == Head(candidates)
       IN  IF code = other_code
           THEN RouteIntersections(code, Tail(candidates), acc)
           ELSE LET transfer == find_best_transfer(code, other_code)
                IN  IF transfer.panic THEN [panic |-> TRUE, list |-> << >>]
                    ELSE IF transfer.val # None
                    THEN RouteIntersections(code, Tail(candidates),
                                            Append(acc, transfer.val[1]))
                    ELSE RouteIntersections(code, Tail(candidates), acc)

RouteClosure(code, order) ==
  RouteIntersections(code, find_potential_intersections(code, order), << >>)

\* whether precalculate_intersections panics on the routes of `order`
PrecalcPanics(order) ==
  \E i \in 1..Len(order) : RouteClosure(order[i], order).panic

\* the adjacency map precalculate_intersections builds
PrecalcMap(order) ==
  [code \in {order[i] : i \in 1..Len(order)} |-> RouteClosure(code, order).list]

(***************************************************************************)
(* State.                                                                  *)
(***************************************************************************)
VARIABLES
  \* SpatialSearch: the codes of the routes table, the order in which the
  \* table (a HashMap) iterates, and the adjacency map
  routes, routeOrder, route_intersections,
  \* the arguments of find_routes_to_destination
  origin, destination, max_transfers, max_route_distance,
  \* the position in find_routes_to_destination: "call", "starts" (the loop
  \* of find_all_possible_routes), "explore" (inside explore_route_path),
  \* "done"; "off" when no query runs
  pc,
  \* the start routes find_all_possible_routes has not taken yet
  origin_routes,
  destination_routes,
  \* the locals of find_all_possible_routes
  visited, current_plan, all_plans,
  \* the activations of explore_route_path, the innermost last
  stack,
  \* what find_routes_to_destination returned
  result,
  \* whether find_all_possible_routes was entered
  searched,
  \* precalculate_intersections: its position ("running", "built",
  \* "aborted"; "off"), the number of the run, the size of the thread pool,
  \* the route codes no worker has taken, the routes the workers are at, the
  \* pairs (code, list) the closures returned, whether a closure panicked,
  \* and the outcome of the first run
  pcP, run, numWorkers, pending, workers, results, panicked, firstRun,
  \* SpatialSearch::new and the cache: the file route_intersections.cache
  \* (None when absent, else its content), the position in new ("load",
  \* "loaded", "save", "done", "panicked"; "off"), what
  \* load_intersections_cache returned, the map of the last save_to_file
  \* that returned Ok and whose file is still in place, the number of the
  \* construction, and the clock
  cacheFile, pcC, loadResult, saved, construction, now,
  \* GeoValidator: the department collection, the boundaries new built
  \* from it, the position ("new", "ready", "validated", "route_validated";
  \* "off"), the point
  \* given to validate_point and what it returned
  department_collection, departments, pcV, query_point, validation,
  \* the destination given to validate_route and what it returned
  query_destination, route_validation,
  \* RoutePlanner: its configuration, the position in plan_route
  \* ("validate", "request", "call", "search", "done"; "off"), the
  \* RouteRequest, and what plan_route returned
  config, pcR, request, planned,
  \* calculate_plan_score on its own: the two plans, their scores and the
  \* position ("score", "scored"; "off")
  score_plans, scores, pcS

dataVars == <<routes, routeOrder, route_intersections>>
searchVars == <<origin, destination, max_transfers, max_route_distance, pc,
                origin_routes, destination_routes, visited, current_plan,
                all_plans, stack, result, searched>>
precalcVars == <<pcP, run, numWorkers, pending, workers, results, panicked, firstRun>>
cacheVars == <<cacheFile, pcC, loadResult, saved, construction, now>>
validateVars == <<department_collection, departments, pcV, query_point, validation,
                  query_destination, route_validation>>
planVars == <<config, pcR, request, planned>>
scoreVars == <<score_plans, scores, pcS>>
vars == <<dataVars, searchVars, precalcVars, cacheVars, validateVars, planVars, scoreVars>>
\* what a query leaves alone
offSearch == <<precalcVars, cacheVars, validateVars, planVars, scoreVars>>
\* what precalculate_intersections leaves alone
offPrecalc == <<searchVars, cacheVars, validateVars, planVars, scoreVars>>
\* what SpatialSearch::new leaves alone
offCache == <<searchVars, precalcVars, validateVars, planVars, scoreVars>>
\* what the GeoValidator leaves alone
offValidate == <<dataVars, searchVars, precalcVars, cacheVars, planVars, scoreVars>>

(***************************************************************************)
(* Plans.                                                                  *)
(***************************************************************************)
RoutePlanNew ==
  [routes |-> << >>, total_distance |-> 0, transfers_count |-> 0,
   is_interdepartmental |-> FALSE]

\* add_segment counting the segments, not the transfers
add_segment_count(plan, segment) ==
  [routes |-> Append(plan.routes, segment),
   total_distance |-> plan.total_distance + segment.segment_distance,
   transfers_count |-> Len(plan.routes) + 1,
   is_interdepartmental |-> plan.is_interdepartmental]

add_segment(plan, segment) ==
  [routes |-> Append(plan.routes, segment),
   total_distance |-> plan.total_distance + segment.segment_distance,
   transfers_count |-> Len(plan.routes) + 1 - 1,
   is_interdepartmental |-> plan.is_interdepartmental]

RouteSegment(code, tp, type, dist) ==
  [route |-> code, transfer_point |-> tp, transfer_type |-> type,
   segment_distance |-> dist]

Ok(plans) == [ok |-> TRUE, err |-> "", plans |-> plans]
Err(e) == [ok |-> FALSE, err |-> e, plans |-> << >>]
NoResult == [ok |-> FALSE, err |-> "pending", plans |-> << >>]

\* Result<Option<String>, ValidationError>, of validate_point
ValidOk(department) == [ok |-> TRUE, err |-> "", department |-> department]
ValidErr(e) == [ok |-> FALSE, err |-> e, department |-> None]
NotValidated == [ok |-> FALSE, err |-> "pending", department |-> None]

\* ValidationResult
ValidationResult(is_valid, origin_department, destination_department, is_interdepartmental, distance_to_boundary) ==
  [is_valid |-> is_valid, origin_department |-> origin_department,
   destination_department |-> destination_department,
   is_interdepartmental |-> is_interdepartmental,
   distance_to_boundary |-> distance_to_boundary]

\* Result<ValidationResult, ValidationError>, of validate_route
RouteOk(v) == [ok |-> TRUE, err |-> "", val |-> Some(v)]
RouteErr(e) == [ok |-> FALSE, err |-> e, val |-> None]
NoRouteValidation == [ok |-> FALSE, err |-> "pending", val |-> None]

(***************************************************************************)
(* The search.                                                             *)
(***************************************************************************)
\* the routes with a vertex within max_distance of point
find_nearby_routes(point, max_distance) ==
  {code \in routes :
     \E i \in 1..Len(RouteCoords(code)) :
       DistSq(RouteCoords(code)[i], point) <= max_distance * max_distance}

\* the first vertex of the route at the least distance of point
find_closest_point_on_route(code, point) ==
  LET coords == RouteCoords(code)
      least == SetMin({DistSq(coords[i], point) : i \in 1..Len(coords)})
      first == SetMin({i \in 1..Len(coords) : DistSq(coords[i], point) = least})
  IN  coords[first]

\* the distance of point to the polyline of the route
calculate_route_distance(code, point) ==
  LET coords == RouteCoords(code)
  IN  Distance(SetMin({SegDistSq(coords[i], coords[i + 1], point) :
                         i \in 1..(Len(coords) - 1)}))

PlanLess(a, b) ==
  \/ a.transfers_count < b.transfers_count
  \/ /\ a.transfers_count = b.transfers_count
     /\ a.total_distance < b.total_distance

\* p put into the sorted sequence s behind every plan that is not greater
InsertPlan(s, p) ==
  LET later == {i \in 1..Len(s) : PlanLess(p, s[i])}
      at == IF later = {} THEN Len(s) + 1 ELSE SetMin(later)
  IN  SubSeq(s, 1, at - 1) \o <<p>> \o SubSeq(s, at, Len(s))

\* the plans left in the order of their enumeration
SortPlans_unsorted(s) == s

\* Vec::sort_by (a stable sort) with the comparison of find_routes_to_destination
RECURSIVE SortPlans(_)
SortPlans(s) ==
  IF s = << >> THEN << >>
  ELSE InsertPlan(SortPlans(SubSeq(s, 1, Len(s) - 1)), s[Len(s)])

Frame(code, left, idx, phase) ==
  [route |-> code, transfers_left |-> left, idx |-> idx, phase |-> phase]

\* the frame of a call that waits for its recursive call to return; the
\* segments and the visited set at the moment before the transfer was
\* taken are history kept for the statement of the backtracking contract
WaitingFrame(code, left, idx, routes_before, visited_before) ==
  [route |-> code, transfers_left |-> left, idx |-> idx, phase |-> "after",
   routes_before |-> routes_before, visited_before |-> visited_before]

Top == stack[Len(stack)]
Pop == SubSeq(stack, 1, Len(stack) - 1)
ReplaceTop(f) == Append(Pop, f)

\* explore_route_path returns to its caller
Return ==
  /\ stack' = Pop
  /\ pc' = IF Len(stack) = 1 THEN "starts" ELSE "explore"

\* find_routes_to_destination looking at the destination first
FindRoutesToDestination_swapped ==
  /\ pc = "call"
  /\ LET o == find_nearby_routes(origin, max_route_distance)
         d == find_nearby_routes(destination, max_route_distance)
     IN  IF d = {}
         THEN /\ result' = Err("NoRoutesNearDestination")
              /\ pc' = "done"
              /\ UNCHANGED <<origin_routes, destination_routes, searched>>
         ELSE IF o = {}
         THEN /\ result' = Err("NoRoutesNearOrigin")
              /\ pc' = "done"
              /\ UNCHANGED <<origin_routes, destination_routes, searched>>
         ELSE /\ origin_routes' = o
              /\ destination_routes' = d
              /\ searched' = TRUE
              /\ pc' = "starts"
              /\ UNCHANGED result
  /\ UNCHANGED <<origin, destination, max_transfers, max_route_distance,
                 visited, current_plan, all_plans, stack>>
  /\ UNCHANGED <<dataVars, offSearch>>

\* find_routes_to_destination up to the call of find_all_possible_routes
FindRoutesToDestination ==
  /\ pc = "call"
  /\ LET o == find_nearby_routes(origin, max_route_distance)
         d == find_nearby_routes(destination, max_route_distance)
     IN  IF o = {}
         THEN /\ result' = Err("NoRoutesNearOrigin")
              /\ pc' = "done"
              /\ UNCHANGED <<origin_routes, destination_routes, searched>>
         ELSE IF d = {}
         THEN /\ result' = Err("NoRoutesNearDestination")
              /\ pc' = "done"
              /\ UNCHANGED <<origin_routes, destination_routes, searched>>
         ELSE /\ origin_routes' = o
              /\ destination_routes' = d
              /\ searched' = TRUE
              /\ pc' = "starts"
              /\ UNCHANGED result
  /\ UNCHANGED <<origin, destination, max_transfers, max_route_distance,
                 visited, current_plan, all_plans, stack>>
  /\ UNCHANGED <<dataVars, offSearch>>

\* one round of the loop of find_all_possible_routes, up to the call of
\* explore_route_path; the order of the start routes is that of a parallel
\* collect, which is any
StartRoute ==
  /\ pc = "starts"
  /\ \E start_route \in origin_routes :
       /\ origin_routes' = origin_routes \ {start_route}
       /\ current_plan' = RoutePlanNew
       /\ visited' = {start_route}
       /\ stack' = <<Frame(start_route, max_transfers, 0, "enter")>>
  /\ pc' = "explore"
  /\ UNCHANGED <<origin, destination, max_transfers, max_route_distance,
                 destination_routes, all_plans, result, searched>>
  /\ UNCHANGED <<dataVars, offSearch>>

\* explore_route_path from its entry to the transfer loop
ExploreEnter ==
  /\ pc = "explore"
  /\ Top.phase = "enter"
  /\ IF Top.route \in destination_routes
     THEN LET end_point == find_closest_point_on_route(Top.route, destination)
              segment ==
                RouteSegment(Top.route,
                  TransferPoint(end_point, None,
                                Distance(DistSq(end_point, destination)),
                                "Direct", Top.route, ""),
                  "Direct",
                  calculate_route_distance(Top.route, end_point))
              plan == add_segment(current_plan, segment)
          IN  /\ current_plan' = plan
              /\ all_plans' = Append(all_plans, plan)
              /\ Return
     ELSE IF Top.transfers_left <= 0
     THEN /\ Return
          /\ UNCHANGED <<current_plan, all_plans>>
     ELSE /\ stack' = ReplaceTop(Frame(Top.route, Top.transfers_left, 1, "loop"))
          /\ UNCHANGED <<pc, current_plan, all_plans>>
  /\ UNCHANGED <<origin, destination, max_transfers, max_route_distance,
                 origin_routes, destination_routes, visited, result, searched>>
  /\ UNCHANGED <<dataVars, offSearch>>

\* the transfer loop without the two bounds of the recursion: it takes a
\* transfer towards a visited route too and passes its transfers on whole
ExploreTransfer_unbounded ==
  /\ pc = "explore"
  /\ Top.phase = "loop"
  /\ LET transfers == IF Top.route \in DOMAIN route_intersections
                      THEN route_intersections[Top.route] ELSE << >>
     IN  IF Top.idx > Len(transfers)
         THEN /\ Return
              /\ UNCHANGED <<visited, current_plan>>
         ELSE LET transfer == transfers[Top.idx]
                  next_route == transfer.to_route
              IN  IF next_route \in routes
                  THEN /\ visited' = visited \cup {next_route}
                       /\ current_plan' =
                            add_segment(current_plan,
                              RouteSegment(Top.route, transfer, transfer.transfer_type,
                                calculate_route_distance(Top.route, transfer.location)))
                       /\ stack' = Append(
                            ReplaceTop(WaitingFrame(Top.route, Top.transfers_left, Top.idx,
                                                    current_plan.routes, visited)),
                            Frame(next_route, Top.transfers_left, 0, "enter"))
                       /\ UNCHANGED pc
                  ELSE /\ stack' = ReplaceTop(Frame(Top.route, Top.transfers_left,
                                                    Top.idx + 1, "loop"))
                       /\ UNCHANGED <<pc, visited, current_plan>>
  /\ UNCHANGED <<origin, destination, max_transfers, max_route_distance,
                 origin_routes, destination_routes, all_plans, result, searched>>
  /\ UNCHANGED <<dataVars, offSearch>>

\* one round of the transfer loop of explore_route_path, up to the recursive
\* call; past the last transfer the function returns
ExploreTransfer ==
  /\ pc = "explore"
  /\ Top.phase = "loop"
  /\ LET transfers == IF Top.route \in DOMAIN route_intersections
                      THEN route_intersections[Top.route] ELSE << >>
     IN  IF Top.idx > Len(transfers)
         THEN /\ Return
              /\ UNCHANGED <<visited, current_plan>>
         ELSE LET transfer == transfers[Top.idx]
                  next_route == transfer.to_route
              IN  IF next_route \in routes /\ next_route \notin visited
                  THEN /\ visited' = visited \cup {next_route}
                       /\ current_plan' =
                            add_segment(current_plan,
                              RouteSegment(Top.route, transfer, transfer.transfer_type,
                                calculate_route_distance(Top.route, transfer.location)))
                       /\ stack' = Append(
                            ReplaceTop(WaitingFrame(Top.route, Top.transfers_left, Top.idx,
                                                    current_plan.routes, visited)),
                            Frame(next_route, Top.transfers_left - 1, 0, "enter"))
                       /\ UNCHANGED pc
                  ELSE /\ stack' = ReplaceTop(Frame(Top.route, Top.transfers_left,
                                                    Top.idx + 1, "loop"))
                       /\ UNCHANGED <<pc, visited, current_plan>>
  /\ UNCHANGED <<origin, destination, max_transfers, max_route_distance,
                 origin_routes, destination_routes, all_plans, result, searched>>
  /\ UNCHANGED <<dataVars, offSearch>>

\* the two statements after the recursive call
ExploreBacktrack ==
  /\ pc = "explore"
  /\ Top.phase = "after"
  /\ LET next_route == route_intersections[Top.route][Top.idx].to_route
     IN  /\ visited' = visited \ {next_route}
         /\ current_plan' =
              [current_plan EXCEPT
                 !.routes = IF @ = << >> THEN @ ELSE SubSeq(@, 1, Len(@) - 1)]
  /\ stack' = ReplaceTop(Frame(Top.route, Top.transfers_left, Top.idx + 1, "loop"))
  /\ UNCHANGED <<origin, destination, max_transfers, max_route_distance, pc,
                 origin_routes, destination_routes, all_plans, result, searched>>
  /\ UNCHANGED <<dataVars, offSearch>>

\* the end of find_all_possible_routes and the rest of
\* find_routes_to_destination
FinishSearch ==
  /\ pc = "starts"
  /\ origin_routes = {}
  /\ result' = IF all_plans = << >> THEN Err("NoValidPath")
               ELSE Ok(Take(SortPlans(all_plans), SearchResultCap))
  /\ pc' = "done"
  /\ UNCHANGED <<origin, destination, max_transfers, max_route_distance,
                 origin_routes, destination_routes, visited, current_plan,
                 all_plans, stack, searched>>
  /\ UNCHANGED <<dataVars, offSearch>>

(***************************************************************************)
(* The searches checked: every dataset of the pool on which the            *)
(* construction of SpatialSearch succeeds, and every query below.          *)
(***************************************************************************)
Datasets == {S \in SUBSET PoolCodes : S # {} /\ Cardinality(S) <= MaxRoutes}

QueryOrigins == {P(-20, -10), P(-60, -10), P(-7, -30), P(0, 60), P(-70, 60)}
QueryDestinations == {P(20, 10), P(60, 10), P(20, 35), P(0, 60), P(70, 60)}
QueryDistances == {ProximateThreshold, 28, DefaultMaxRouteDistance}

InitData ==
  /\ routes \in Datasets
  /\ routeOrder \in Perms(routes)
  /\ ~PrecalcPanics(routeOrder)
  /\ route_intersections = PrecalcMap(routeOrder)

\* no precomputation runs
PrecalcOff ==
  /\ pcP = "off"
  /\ run = 0
  /\ numWorkers = 0
  /\ pending = {}
  /\ workers = {}
  /\ results = {}
  /\ panicked = FALSE
  /\ firstRun = None

\* PlanningConfig
PlanningConfig(mrd, mtd, transfers, limit) ==
  [max_route_distance |-> mrd, max_transfer_distance |-> mtd,
   max_transfers |-> transfers, results_limit |-> limit]

RouteRequest(o, d, mrd, mtd, transfers) ==
  [origin |-> o, destination |-> d, max_route_distance |-> mrd,
   max_transfer_distance |-> mtd, max_transfers |-> transfers]
NoRequest == RouteRequest(P(0, 0), P(0, 0), 0, 0, 0)

\* Result<Vec<RoutePlan>, PlanningError>, of plan_route
PlanOk(plans) == [ok |-> TRUE, kind |-> "", err |-> "", plans |-> plans]
PlanErr(kind, e) == [ok |-> FALSE, kind |-> kind, err |-> e, plans |-> << >>]
NotPlanned == PlanErr("pending", "")

\* no plan_route runs
PlanOff ==
  /\ config = PlanningConfig(0, 0, 0, 0)
  /\ pcR = "off"
  /\ request = NoRequest
  /\ planned = NotPlanned

\* nothing is scored on its own
ScoreOff ==
  /\ score_plans = << >>
  /\ scores = << >>
  /\ pcS = "off"

\* no construction goes through the cache
CacheOff ==
  /\ cacheFile = None
  /\ pcC = "off"
  /\ loadResult = None
  /\ saved = None
  /\ construction = 0
  /\ now = 0

\* no validator is in use
ValidateOff ==
  /\ department_collection = << >>
  /\ departments = << >>
  /\ pcV = "off"
  /\ query_point = P(0, 0)
  /\ validation = NotValidated
  /\ query_destination = P(0, 0)
  /\ route_validation = NoRouteValidation

InitSearch ==
  /\ InitData
  /\ PrecalcOff
  /\ CacheOff
  /\ ValidateOff
  /\ PlanOff
  /\ ScoreOff
  /\ origin \in QueryOrigins
  /\ destination \in QueryDestinations
  /\ max_transfers \in -1..MaxTransfersInput
  /\ max_route_distance \in QueryDistances
  /\ pc = "call"
  /\ origin_routes = {}
  /\ destination_routes = {}
  /\ visited = {}
  /\ current_plan = RoutePlanNew
  /\ all_plans = << >>
  /\ stack = << >>
  /\ result = NoResult
  /\ searched = FALSE

NextSearch ==
  \/ FindRoutesToDestination
  \/ StartRoute
  \/ ExploreEnter
  \/ ExploreTransfer
  \/ ExploreBacktrack
  \/ FinishSearch

SpecSearch == InitSearch /\ [][NextSearch]_vars

(***************************************************************************)
(* precalculate_intersections, as SpatialSearch::new runs it: a pool of    *)
(* numWorkers threads takes the route codes in any order; each closure     *)
(* reads the tables only and returns the pair (code, list); collect builds *)
(* the map from the pairs.  A panic of a closure ends the construction.    *)
(* The construction is made twice on the same dataset, each time with its  *)
(* own routes table, hence its own iteration order.                        *)
(***************************************************************************)
\* no query runs
SearchOff ==
  /\ origin = P(0, 0)
  /\ destination = P(0, 0)
  /\ max_transfers = 0
  /\ max_route_distance = 0
  /\ pc = "off"
  /\ origin_routes = {}
  /\ destination_routes = {}
  /\ visited = {}
  /\ current_plan = RoutePlanNew
  /\ all_plans = << >>
  /\ stack = << >>
  /\ result = NoResult
  /\ searched = FALSE

\* a thread of the pool that is idle takes a route code
WorkerTake(route_code) ==
  /\ pcP = "running"
  /\ route_code \in pending
  /\ Cardinality(workers) < numWorkers
  /\ pending' = pending \ {route_code}
  /\ workers' = workers \cup {route_code}
  /\ UNCHANGED <<pcP, run, numWorkers, results, panicked, firstRun>>
  /\ UNCHANGED <<dataVars, offPrecalc>>

\* the closure of a route comes to its end on its thread
WorkerFinish(route_code) ==
  /\ pcP = "running"
  /\ route_code \in workers
  /\ LET closure == RouteClosure(route_code, routeOrder)
     IN  IF closure.panic
         THEN /\ panicked' = TRUE
              /\ UNCHANGED results
         ELSE /\ results' = results \cup {<<route_code, closure.list>>}
              /\ UNCHANGED panicked
  /\ workers' = workers \ {route_code}
  /\ UNCHANGED <<pcP, run, numWorkers, pending, firstRun>>
  /\ UNCHANGED <<dataVars, offPrecalc>>

\* collect, and the assignment to self.route_intersections; after a panic
\* the pool hands the panic on once its workers have stopped
Collect ==
  /\ pcP = "running"
  /\ workers = {}
  /\ IF panicked
     THEN /\ pcP' = "aborted"
          /\ UNCHANGED route_intersections
     ELSE /\ pending = {}
          /\ pcP' = "built"
          /\ route_intersections' =
               [code \in {pair[1] : pair \in results} |->
                  (CHOOSE pair \in results : pair[1] = code)[2]]
  /\ UNCHANGED <<run, numWorkers, pending, workers, results, panicked, firstRun>>
  /\ UNCHANGED <<routes, routeOrder>>
  /\ UNCHANGED offPrecalc

\* the construction is made again on the unchanged dataset
Rerun ==
  /\ pcP \in {"built", "aborted"}
  /\ run = 1
  /\ firstRun' = Some([aborted |-> pcP = "aborted", map |-> route_intersections])
  /\ run' = 2
  /\ routeOrder' \in Perms(routes)
  /\ numWorkers' \in 1..MaxWorkers
  /\ workers' = {}
  /\ pending' = routes
  /\ results' = {}
  /\ panicked' = FALSE
  /\ route_intersections' = << >>
  /\ pcP' = "running"
  /\ UNCHANGED routes
  /\ UNCHANGED offPrecalc

InitPrecalc ==
  /\ routes \in Datasets
  /\ routeOrder \in Perms(routes)
  /\ route_intersections = << >>
  /\ SearchOff
  /\ CacheOff
  /\ ValidateOff
  /\ PlanOff
  /\ ScoreOff
  /\ pcP = "running"
  /\ run = 1
  /\ numWorkers \in 1..MaxWorkers
  /\ workers = {}
  /\ pending = routes
  /\ results = {}
  /\ panicked = FALSE
  /\ firstRun = None

NextPrecalc ==
  \/ \E route_code \in routes : WorkerTake(route_code)
  \/ \E route_code \in routes : WorkerFinish(route_code)
  \/ Collect
  \/ Rerun

SpecPrecalc == InitPrecalc /\ [][NextPrecalc]_vars

(***************************************************************************)
(* The cache file.  bincode writes a value as the sequence of its fields,  *)
(* without names: an integer or an f64 is one cell here, a string is its   *)
(* length followed by its bytes, an Option is a tag 0 or 1 followed by the *)
(* value, a unit enum variant is its index, a sequence or a map is its     *)
(* length followed by its elements.  The fields of BusStopProperties that  *)
(* the model does not carry are left out of the file.                      *)
(***************************************************************************)
\* RouteIntersectionCache::new writes version 1
CacheVersion == 1

RouteIntersectionCache(time, intersections) ==
  [version |-> CacheVersion, last_updated |-> time, intersections |-> intersections]

\* DateTime<Utc> is written as its RFC 3339 text
TimeStr(t) ==
  CASE t = 0 -> "T0"
    [] t = 1 -> "T1"
    [] t = 2 -> "T2"
    [] t = 3 -> "T3"
    [] OTHER -> "T4"
TimeStrings == {TimeStr(t) : t \in 0..4}
TimeOf(str) == CHOOSE t \in 0..4 : TimeStr(t) = str

\* the bytes of the strings of the model
StrBytes(str) ==
  CASE str = "1" -> <<49>>
    [] str = "2" -> <<50>>
    [] str = "3" -> <<51>>
    [] str = "4" -> <<52>>
    [] str = "5" -> <<53>>
    [] str = "T0" -> <<84, 48>>
    [] str = "T1" -> <<84, 49>>
    [] str = "T2" -> <<84, 50>>
    [] str = "T3" -> <<84, 51>>
    [] str = "T4" -> <<84, 52>>

\* TransferType: the index of the variant
VariantIndex(type) ==
  CASE type = "Direct" -> 0
    [] type = "Near" -> 1
    [] type = "Proximate" -> 2
TransferTypes == {"Direct", "Near", "Proximate"}

SerStr(str) == <<Len(StrBytes(str))>> \o StrBytes(str)
SerOptF64(o) == IF o = None THEN <<0>> ELSE <<1, o[1]>>
SerStop(stop) ==
  <<1>> \o SerStr(stop.ruta) \o SerOptF64(stop.latitud) \o SerOptF64(stop.longitud)

\* Option<BusStopProperties> written as absent whatever it holds
SerOptStop_absent(o) == <<0>>

SerOptStop(o) == IF o = None THEN <<0>> ELSE <<1>> \o SerStop(o[1])

\* point_serde::serialize writes the pair (x, y)
SerPoint(p) == <<p[1], p[2]>>

SerTransferPoint(tp) ==
  SerPoint(tp.location) \o SerOptStop(tp.bus_stop) \o <<tp.distance_to_route>>
    \o <<VariantIndex(tp.transfer_type)>> \o SerStr(tp.from_route) \o SerStr(tp.to_route)

RECURSIVE SerList(_)
SerList(list) ==
  IF list = << >> THEN << >>
  ELSE SerTransferPoint(Head(list)) \o SerList(Tail(list))

\* the entries of the map, in the order `keys` in which the map iterates
RECURSIVE SerEntries(_, _)
SerEntries(map, keys) ==
  IF keys = << >> THEN << >>
  ELSE SerStr(Head(keys)) \o <<Len(map[Head(keys)])>> \o SerList(map[Head(keys)])
         \o SerEntries(map, Tail(keys))

\* bincode::serialize_into of a RouteIntersectionCache
Serialize(cache, keys) ==
  <<cache.version>> \o SerStr(TimeStr(cache.last_updated))
    \o <<Len(keys)>> \o SerEntries(cache.intersections, keys)

\* Reading: each reader takes the file and a position and gives the value
\* and the position after it, or fails (end of file, invalid tag, invalid
\* variant index, bytes that are no string).
DeFail == [ok |-> FALSE]
DeOk(v, pos) == [ok |-> TRUE, val |-> v, pos |-> pos]

\* the element of a set of one element: a value read from the file is
\* bound as x \in {reader}, so that it is read once
Only(S) == CHOOSE v \in S : TRUE

DeCell(file, pos) == IF pos > Len(file) THEN DeFail ELSE DeOk(file[pos], pos + 1)

DeStr(file, pos, strings) ==
  Only({ IF ~n.ok THEN DeFail
         ELSE IF n.val < 0 \/ n.pos + n.val - 1 > Len(file) THEN DeFail
         ELSE IF \E str \in strings : StrBytes(str) = SubSeq(file, n.pos, n.pos + n.val - 1)
              THEN DeOk(CHOOSE str \in strings :
                          StrBytes(str) = SubSeq(file, n.pos, n.pos + n.val - 1),
                        n.pos + n.val)
              ELSE DeFail
         : n \in {DeCell(file, pos)} })

\* the value that follows the tag 1 of an Option<f64>
DeSomeF64(file, pos) ==
  Only({ IF x.ok THEN DeOk(Some(x.val), x.pos) ELSE DeFail : x \in {DeCell(file, pos)} })

DeOptF64(file, pos) ==
  Only({ IF ~tag.ok THEN DeFail
         ELSE IF tag.val = 0 THEN DeOk(None, tag.pos)
         ELSE IF tag.val = 1 THEN DeSomeF64(file, tag.pos)
         ELSE DeFail
         : tag \in {DeCell(file, pos)} })

\* latitud and longitud, after the route of the stop
DeStopCoordinates(file, ruta) ==
  Only({ IF ~latitud.ok THEN DeFail
         ELSE Only({ IF ~longitud.ok THEN DeFail
                     ELSE DeOk(Stop(ruta.val, longitud.val, latitud.val), longitud.pos)
                     : longitud \in {DeOptF64(file, latitud.pos)} })
         : latitud \in {DeOptF64(file, ruta.pos)} })

DeStop(file, pos) ==
  Only({ IF ~tag.ok THEN DeFail
         ELSE IF tag.val \notin {0, 1} THEN DeFail
         \* no file of the model holds a stop without route: bus_stops_map
         \* drops them
         ELSE IF tag.val = 0 THEN DeFail
         ELSE Only({ IF ~ruta.ok THEN DeFail ELSE DeStopCoordinates(file, ruta)
                     : ruta \in {DeStr(file, tag.pos, PoolCodes)} })
         : tag \in {DeCell(file, pos)} })

\* the value that follows the tag 1 of an Option<BusStopProperties>
DeSomeStop(file, pos) ==
  Only({ IF stop.ok THEN DeOk(Some(stop.val), stop.pos) ELSE DeFail
         : stop \in {DeStop(file, pos)} })

DeOptStop(file, pos) ==
  Only({ IF ~tag.ok THEN DeFail
         ELSE IF tag.val = 0 THEN DeOk(None, tag.pos)
         ELSE IF tag.val = 1 THEN DeSomeStop(file, tag.pos)
         ELSE DeFail
         : tag \in {DeCell(file, pos)} })

\* point_serde::deserialize reads the pair (x, y)
DePoint(file, pos) ==
  Only({ IF ~x.ok THEN DeFail
         ELSE Only({ IF ~y.ok THEN DeFail ELSE DeOk(<<x.val, y.val>>, y.pos)
                     : y \in {DeCell(file, x.pos)} })
         : x \in {DeCell(file, pos)} })

DeTransferType(file, pos) ==
  Only({ IF ~index.ok THEN DeFail
         ELSE IF \E type \in TransferTypes : VariantIndex(type) = index.val
              THEN DeOk(CHOOSE type \in TransferTypes : VariantIndex(type) = index.val,
                        index.pos)
              ELSE DeFail
         : index \in {DeCell(file, pos)} })

\* from_route and to_route, after the fields before them
DeTransferRoutes(file, location, bus_stop, distance_to_route, transfer_type) ==
  Only({ IF ~from_route.ok THEN DeFail
         ELSE Only({ IF ~to_route.ok THEN DeFail
                     ELSE DeOk(TransferPoint(location.val, bus_stop.val,
                                             distance_to_route.val, transfer_type.val,
                                             from_route.val, to_route.val),
                               to_route.pos)
                     : to_route \in {DeStr(file, from_route.pos, PoolCodes)} })
         : from_route \in {DeStr(file, transfer_type.pos, PoolCodes)} })

\* distance_to_route and what follows, after location and bus_stop
DeTransferDistance(file, location, bus_stop) ==
  Only({ IF ~distance_to_route.ok THEN DeFail
         ELSE Only({ IF ~transfer_type.ok THEN DeFail
                     ELSE DeTransferRoutes(file, location, bus_stop,
                                           distance_to_route, transfer_type)
                     : transfer_type \in {DeTransferType(file, distance_to_route.pos)} })
         : distance_to_route \in {DeCell(file, bus_stop.pos)} })

DeTransferPoint(file, pos) ==
  Only({ IF ~location.ok THEN DeFail
         ELSE Only({ IF ~bus_stop.ok THEN DeFail
                     ELSE DeTransferDistance(file, location, bus_stop)
                     : bus_stop \in {DeOptStop(file, location.pos)} })
         : location \in {DePoint(file, pos)} })

\* n transfer points, appended to acc
RECURSIVE DeList(_, _, _, _)
DeList(file, pos, n, acc) ==
  IF n = 0 THEN DeOk(acc, pos)
  ELSE Only({ IF ~tp.ok THEN DeFail
              ELSE DeList(file, tp.pos, n - 1, Append(acc, tp.val))
              : tp \in {DeTransferPoint(file, pos)} })

\* the list of an entry, after its key
DeEntryList(file, key) ==
  Only({ IF ~len.ok THEN DeFail
         ELSE IF len.val < 0 THEN DeFail
         ELSE Only({ IF ~list.ok THEN DeFail
                     ELSE DeOk(<<key.val, list.val>>, list.pos)
                     : list \in {DeList(file, len.pos, len.val, << >>)} })
         : len \in {DeCell(file, key.pos)} })

\* n entries (key, list), inserted into the map acc
RECURSIVE DeEntries(_, _, _, _)
DeEntries(file, pos, n, acc) ==
  IF n = 0 THEN DeOk(acc, pos)
  ELSE Only({ IF ~key.ok THEN DeFail
              ELSE Only({ IF ~entry.ok THEN DeFail
                          ELSE DeEntries(file, entry.pos, n - 1,
                                 [code \in DOMAIN acc \cup {entry.val[1]} |->
                                    IF code = entry.val[1] THEN entry.val[2]
                                    ELSE acc[code]])
                          : entry \in {DeEntryList(file, key)} })
              : key \in {DeStr(file, pos, PoolCodes)} })

\* the map, after version and last_updated
DeIntersections(file, version, last_updated) ==
  Only({ IF ~len.ok THEN DeFail
         ELSE IF len.val < 0 THEN DeFail
         ELSE Only({ IF ~entries.ok THEN DeFail
                     ELSE DeOk([version |-> version.val,
                                last_updated |-> TimeOf(last_updated.val),
                                intersections |-> entries.val], entries.pos)
                     : entries \in {DeEntries(file, len.pos, len.val, << >>)} })
         : len \in {DeCell(file, last_updated.pos)} })

\* bincode::deserialize_from of a RouteIntersectionCache; bytes after the
\* value are not looked at
Deserialize(file) ==
  Only({ IF ~version.ok THEN DeFail
         ELSE Only({ IF ~last_updated.ok THEN DeFail
                     ELSE DeIntersections(file, version, last_updated)
                     : last_updated \in {DeStr(file, version.pos, TimeStrings)} })
         : version \in {DeCell(file, 1)} })

(***************************************************************************)
(* SpatialSearch::new with its cache directory: load the cache; use it;    *)
(* or precalculate and, when the load said there was no usable file, save. *)
(* Constructions follow one another on the same dataset and directory.     *)
(***************************************************************************)
NotLoaded == [kind |-> "none", cache |-> None]
LoadOk(cache) == [kind |-> IF cache = None THEN "OkNone" ELSE "OkSome", cache |-> cache]
LoadErr == [kind |-> "Err", cache |-> None]

\* exists() is false: Ok(None); File::open fails: Err; the content does not
\* decode: Ok(None)
load_from_file(file, openFails) ==
  IF file = None THEN LoadOk(None)
  ELSE IF openFails THEN LoadErr
  ELSE LET cache == Deserialize(file[1])
       IN  IF cache.ok THEN LoadOk(Some(cache.val)) ELSE LoadOk(None)

\* where a write that fails may stop, in a file of n cells
Truncations(n) == {0, 1, n \div 2, n - 1} \cap (0..(n - 1))

\* a cache file left by a construction on routes 1 and 2
StaleFile ==
  Serialize(RouteIntersectionCache(0, PrecalcMap(<<"1", "2">>)), <<"2", "1">>)

InitialFiles == {None, Some(<< >>), Some(<<CacheVersion>>), Some(StaleFile)}

LoadIntersectionsCache ==
  /\ pcC = "load"
  /\ \E openFails \in BOOLEAN :
       loadResult' = load_from_file(cacheFile, openFails)
  /\ pcC' = "loaded"
  /\ UNCHANGED <<cacheFile, saved, construction, now>>
  /\ UNCHANGED <<dataVars, offCache>>

\* Ok(Some(cache)): the map of the file becomes the adjacency map
UseCache ==
  /\ pcC = "loaded"
  /\ loadResult.kind = "OkSome"
  /\ route_intersections' = loadResult.cache[1].intersections
  /\ pcC' = "done"
  /\ UNCHANGED <<cacheFile, loadResult, saved, construction, now>>
  /\ UNCHANGED <<routes, routeOrder, offCache>>

\* Ok(None) and Err: the map is computed; only Ok(None) goes on to save
PrecalculateIntersections ==
  /\ pcC = "loaded"
  /\ loadResult.kind \in {"OkNone", "Err"}
  /\ IF PrecalcPanics(routeOrder)
     THEN /\ pcC' = "panicked"
          /\ UNCHANGED route_intersections
     ELSE /\ route_intersections' = PrecalcMap(routeOrder)
          /\ pcC' = IF loadResult.kind = "OkNone" THEN "save" ELSE "done"
  /\ UNCHANGED <<cacheFile, loadResult, saved, construction, now>>
  /\ UNCHANGED <<routes, routeOrder, offCache>>

\* save_intersections_cache; its error is logged only
SaveIntersectionsCache ==
  /\ pcC = "save"
  /\ LET cache == RouteIntersectionCache(now, route_intersections)
     IN  \/ \* create_dir_all or File::create fails
            UNCHANGED <<cacheFile, saved>>
         \/ \* serialize_into fails in the file that File::create emptied
            \E keys \in Perms(DOMAIN route_intersections) :
              \E n \in Truncations(Len(Serialize(cache, keys))) :
                /\ cacheFile' = Some(SubSeq(Serialize(cache, keys), 1, n))
                /\ saved' = None
         \/ \E keys \in Perms(DOMAIN route_intersections) :
              /\ cacheFile' = Some(Serialize(cache, keys))
              /\ saved' = Some(route_intersections)
  /\ pcC' = "done"
  /\ UNCHANGED <<loadResult, construction, now>>
  /\ UNCHANGED <<dataVars, offCache>>

\* the next construction, with its own routes table
NewAgain ==
  /\ pcC \in {"done", "panicked"}
  /\ construction < MaxConstructions
  /\ construction' = construction + 1
  /\ now' = now + 1
  /\ routeOrder' \in Perms(routes)
  /\ route_intersections' = << >>
  /\ loadResult' = NotLoaded
  /\ pcC' = "load"
  /\ UNCHANGED <<cacheFile, saved, routes>>
  /\ UNCHANGED offCache

InitCache ==
  /\ routes \in {S \in Datasets : Cardinality(S) <= MaxCacheRoutes}
  /\ routeOrder \in Perms(routes)
  /\ route_intersections = << >>
  /\ SearchOff
  /\ PrecalcOff
  /\ ValidateOff
  /\ PlanOff
  /\ ScoreOff
  /\ cacheFile \in InitialFiles
  /\ pcC = "load"
  /\ loadResult = NotLoaded
  /\ saved = None
  /\ construction = 1
  /\ now = 1

NextCache ==
  \/ LoadIntersectionsCache
  \/ UseCache
  \/ PrecalculateIntersections
  \/ SaveIntersectionsCache
  \/ NewAgain

SpecCache == InitCache /\ [][NextCache]_vars

(***************************************************************************)
(* The GeoValidator.  The department pool: A is a polygon with a hole, B   *)
(* a rectangle that shares an edge with A, C a multi-part polygon of two   *)
(* rectangles north of them, D a triangle that overlaps B.                 *)
(***************************************************************************)
\* a closed rectangular ring
Rectangle(x1, y1, x2, y2) ==
  <<P(x1, y1), P(x2, y1), P(x2, y2), P(x1, y2), P(x1, y1)>>

\* GeoJsonFeature<DepartmentProperties>
Department(nam, type, coordinates) ==
  [nam |-> nam, geometry |-> [type |-> type, coordinates |-> coordinates]]

DepartmentPool ==
  { Department("A", "Polygon",
               <<Rectangle(-30, -10, 0, 10), Rectangle(-22, -6, -8, 6)>>),
    Department("B", "Polygon", <<Rectangle(0, -10, 30, 10)>>),
    Department("C", "MultiPolygon",
               << <<Rectangle(-30, 20, -10, 30)>>, <<Rectangle(10, 20, 30, 30)>> >>),
    Department("D", "Polygon",
               << <<P(25, -5), P(45, -5), P(45, 15), P(25, -5)>> >>) }

\* the department collections: the sequences without repetition of at most
\* MaxDepartments departments of the pool
DepartmentCollections ==
  UNION {Perms(S) : S \in {T \in SUBSET DepartmentPool : Cardinality(T) <= MaxDepartments}}

\* the points given to validate_point
ValidationPoints ==
  { P(-25, 0), P(-15, 0), P(0, 0), P(15, 0), P(29, -3), P(35, 0), P(35, 10),
    P(50, 0), P(54, 0), P(55, 0), P(-20, 25), P(20, 25), P(0, 25), P(-5, 25),
    P(20, 35), P(20, 15), P(0, -45), P(-18, -7), P(18, 8) }

\* geo_types::Polygon
Polygon(exterior, interiors) == [exterior |-> exterior, interiors |-> interiors]

\* GeoValidator::new: the boundary of one feature
DepartmentBoundary(feature) ==
  [name |-> feature.nam,
   boundary |->
     IF feature.geometry.type = "Polygon"
     THEN <<Polygon(Head(feature.geometry.coordinates),
                    Tail(feature.geometry.coordinates))>>
     ELSE << >>]

\* the lines of a ring, by the index of their first point
RingLines(ring) == 1..(Len(ring) - 1)

\* p lies on the segment a-b
OnSegment(a, b, p) ==
  /\ Cross(a, b, p) = 0
  /\ Dot(a, b, p) >= 0
  /\ Dot(a, b, p) <= DistSq(a, b)

OnRing(ring, p) == \E i \in RingLines(ring) : OnSegment(ring[i], ring[i + 1], p)

\* the lines of the ring that cross the half-line from p towards +x
Crossings(ring, p) ==
  {i \in RingLines(ring) :
     LET a == ring[i]
         b == ring[i + 1]
     IN  \/ a[2] <= p[2] /\ b[2] > p[2] /\ Cross(a, b, p) > 0
         \/ a[2] > p[2] /\ b[2] <= p[2] /\ Cross(a, b, p) < 0}

\* p is in the interior of the ring
InsideRing(ring, p) == ~OnRing(ring, p) /\ Cardinality(Crossings(ring, p)) % 2 = 1

\* Contains<Point> for Polygon: p is in the interior of the polygon
PolygonContains(polygon, p) ==
  /\ InsideRing(polygon.exterior, p)
  /\ \A i \in 1..Len(polygon.interiors) :
       ~InsideRing(polygon.interiors[i], p) /\ ~OnRing(polygon.interiors[i], p)

\* Intersects<Point> for Polygon: p is in the interior or on the boundary
PolygonIntersects(polygon, p) ==
  /\ InsideRing(polygon.exterior, p) \/ OnRing(polygon.exterior, p)
  /\ \A i \in 1..Len(polygon.interiors) : ~InsideRing(polygon.interiors[i], p)

\* Contains<Point> for MultiPolygon
MultiPolygonContains(boundary, p) ==
  \E i \in 1..Len(boundary) : PolygonContains(boundary[i], p)

\* whether p is nearer than d to the segment a-b (exact)
SegNearer(a, b, p, d) ==
  LET len2 == DistSq(a, b)
      t    == Dot(a, b, p)
  IN  IF len2 = 0 \/ t <= 0 THEN DistSq(a, p) < d * d
      ELSE IF t >= len2 THEN DistSq(b, p) < d * d
      ELSE Cross(a, b, p) * Cross(a, b, p) < d * d * len2

RingNearer(ring, p, d) ==
  \E i \in RingLines(ring) : SegNearer(ring[i], ring[i + 1], p, d)

\* euclidean_distance of a polygon to p is below d: the distance is 0 when
\* the polygon intersects p, else the least distance to its rings
PolygonNearer(polygon, p, d) ==
  \/ PolygonIntersects(polygon, p) /\ 0 < d
  \/ RingNearer(polygon.exterior, p, d)
  \/ \E i \in 1..Len(polygon.interiors) : RingNearer(polygon.interiors[i], p, d)

\* euclidean_distance of a MultiPolygon to p is below d: the least over its
\* polygons, f64::MAX when it has none
MultiPolygonNearer(boundary, p, d) ==
  \E i \in 1..Len(boundary) : PolygonNearer(boundary[i], p, d)

\* validate_point: the first department that contains p; else Ok(None) when
\* the least distance to a department, f64::MAX without any, is below 0.01
validate_point(depts, p) ==
  IF \E i \in 1..Len(depts) : MultiPolygonContains(depts[i].boundary, p)
  THEN LET first == SetMin({i \in 1..Len(depts) :
                              MultiPolygonContains(depts[i].boundary, p)})
       IN  ValidOk(Some(depts[first].name))
  ELSE IF \E i \in 1..Len(depts) :
            MultiPolygonNearer(depts[i].boundary, p, NearBoundaryThreshold)
       THEN ValidOk(None)
       ELSE ValidErr("OutsideCountry")

\* f64::MAX, the least distance when there is no polygon
DistanceMax == 1000000

\* the least distance of the departments to p, in whole units, rounded down;
\* from the near-boundary threshold on it is not told apart from f64::MAX
\* (validate_route computes it after validate_point accepted p, which it
\* does only below the threshold)
distance_to_boundary(depts, p) ==
  IF \E k \in 1..NearBoundaryThreshold :
       \E i \in 1..Len(depts) : MultiPolygonNearer(depts[i].boundary, p, k)
  THEN SetMin({k \in 1..NearBoundaryThreshold :
                 \E i \in 1..Len(depts) : MultiPolygonNearer(depts[i].boundary, p, k)}) - 1
  ELSE DistanceMax

\* validate_route letting the error of the destination pass
validate_route_origin_only(depts, o, d) ==
  LET origin_dept == validate_point(depts, o)
      dest_dept   == validate_point(depts, d)
  IN  IF ~origin_dept.ok THEN RouteErr(origin_dept.err)
      ELSE RouteOk(ValidationResult(
             origin_dept.department # None /\ dest_dept.department # None,
             origin_dept.department, dest_dept.department,
             /\ origin_dept.department # None
             /\ dest_dept.department # None
             /\ origin_dept.department # dest_dept.department,
             distance_to_boundary(depts, o)))

\* validate_route with is_valid when one endpoint is resolved
validate_route_any_resolved(depts, o, d) ==
  LET origin_dept == validate_point(depts, o)
      dest_dept   == validate_point(depts, d)
  IN  IF ~origin_dept.ok THEN RouteErr(origin_dept.err)
      ELSE IF ~dest_dept.ok THEN RouteErr(dest_dept.err)
      ELSE RouteOk(ValidationResult(
             origin_dept.department # None \/ dest_dept.department # None,
             origin_dept.department, dest_dept.department,
             /\ origin_dept.department # None
             /\ dest_dept.department # None
             /\ origin_dept.department # dest_dept.department,
             distance_to_boundary(depts, o)))

\* validate_route: the `?` of the origin comes first
validate_route(depts, o, d) ==
  LET origin_dept == validate_point(depts, o)
      dest_dept   == validate_point(depts, d)
  IN  IF ~origin_dept.ok THEN RouteErr(origin_dept.err)
      ELSE IF ~dest_dept.ok THEN RouteErr(dest_dept.err)
      ELSE RouteOk(ValidationResult(
             origin_dept.department # None /\ dest_dept.department # None,
             origin_dept.department, dest_dept.department,
             /\ origin_dept.department # None
             /\ dest_dept.department # None
             /\ origin_dept.department # dest_dept.department,
             distance_to_boundary(depts, o)))

GeoValidatorNew ==
  /\ pcV = "new"
  /\ departments' = [i \in 1..Len(department_collection) |->
                       DepartmentBoundary(department_collection[i])]
  /\ pcV' = "ready"
  /\ UNCHANGED <<department_collection, query_point, validation,
                 query_destination, route_validation>>
  /\ UNCHANGED offValidate

ValidatePoint ==
  /\ pcV = "ready"
  /\ \E p \in ValidationPoints :
       /\ query_point' = p
       /\ validation' = validate_point(departments, p)
  /\ pcV' = "validated"
  /\ UNCHANGED <<department_collection, departments, query_destination, route_validation>>
  /\ UNCHANGED offValidate

ValidateRoute ==
  /\ pcV = "ready"
  /\ \E o \in ValidationPoints, d \in ValidationPoints :
       /\ query_point' = o
       /\ query_destination' = d
       /\ route_validation' = validate_route(departments, o, d)
  /\ pcV' = "route_validated"
  /\ UNCHANGED <<department_collection, departments, validation>>
  /\ UNCHANGED offValidate

\* no routes are loaded
DataOff ==
  /\ routes = {}
  /\ routeOrder = << >>
  /\ route_intersections = << >>

InitValidate ==
  /\ DataOff
  /\ SearchOff
  /\ PrecalcOff
  /\ CacheOff
  /\ PlanOff
  /\ ScoreOff
  /\ department_collection \in DepartmentCollections
  /\ departments = << >>
  /\ pcV = "new"
  /\ query_point = P(0, 0)
  /\ validation = NotValidated
  /\ query_destination = P(0, 0)
  /\ route_validation = NoRouteValidation

NextValidate ==
  \/ GeoValidatorNew
  \/ ValidatePoint
  \/ ValidateRoute

SpecValidate == InitValidate /\ [][NextValidate]_vars

(***************************************************************************)
(* The RoutePlanner.  Distances of the configuration and of the request    *)
(* are in units of 0.001 degree like the coordinates; the factors 1.5 and  *)
(* 1.2 are exact on the configurations of the model, whose distances are   *)
(* multiples of 10.  A score is kept as the integer                        *)
(* score * 100 * max_route_distance, which orders the plans of one query   *)
(* as the scores do.                                                       *)
(***************************************************************************)
\* the configurations: the default distances with a smaller budget of
\* transfers, and variations of the distances, of max_transfers and of
\* results_limit
PlanConfigs ==
  { PlanningConfig(DefaultMaxRouteDistance, ProximateThreshold, 2, SearchResultCap),
    PlanningConfig(ProximateThreshold, 2 * ProximateThreshold, 0, 1),
    PlanningConfig(ProximateThreshold, 2 * ProximateThreshold, 1, 2),
    PlanningConfig(DefaultMaxRouteDistance, 2, 1, 0),
    PlanningConfig(ProximateThreshold, ProximateThreshold, 2, SearchResultCap) }

\* x * 1.5 and x * 1.2
TimesOneAndHalf(x) == (x * 3) \div 2
TimesOneAndFifth(x) == (x * 6) \div 5

\* create_route_request widening the route distance only
create_route_request_route_only(cfg, o, d, v) ==
  LET wide == IF v.is_interdepartmental
              THEN TimesOneAndHalf(cfg.max_route_distance)
              ELSE cfg.max_route_distance
  IN  RouteRequest(o, d,
        IF v.distance_to_boundary < cfg.max_transfer_distance
        THEN TimesOneAndFifth(wide) ELSE wide,
        cfg.max_transfer_distance, cfg.max_transfers)

create_route_request(cfg, o, d, v) ==
  LET wide == IF v.is_interdepartmental
              THEN TimesOneAndHalf(cfg.max_route_distance)
              ELSE cfg.max_route_distance
      transfer == IF v.is_interdepartmental
                  THEN TimesOneAndHalf(cfg.max_transfer_distance)
                  ELSE cfg.max_transfer_distance
  IN  RouteRequest(o, d,
        IF v.distance_to_boundary < cfg.max_transfer_distance
        THEN TimesOneAndFifth(wide) ELSE wide,
        transfer, cfg.max_transfers)

\* the penalty of the tier of a segment
TierPenalty(type) ==
  CASE type = "Direct" -> 0
    [] type = "Near" -> 2
    [] type = "Proximate" -> 5

RECURSIVE SumPenalties(_)
SumPenalties(segments) ==
  IF segments = << >> THEN 0
  ELSE TierPenalty(Head(segments).transfer_type) + SumPenalties(Tail(segments))

\* the factor 0.8 when the flag of the plan equals the classification of
\* the query and 1.2 when it differs, in tenths
InterdepartmentalFactor_by_match(plan, v) ==
  IF v.is_interdepartmental = plan.is_interdepartmental THEN 8 ELSE 12

\* the factor of the interdepartmental bonus and penalty, in tenths
InterdepartmentalFactor(plan, v) ==
  IF v.is_interdepartmental /\ plan.is_interdepartmental THEN 8
  ELSE IF ~v.is_interdepartmental /\ plan.is_interdepartmental THEN 12
  ELSE 10

\* calculate_plan_score without the weight of the transfers
calculate_plan_score_unweighted(cfg, plan, v) ==
  (SumPenalties(plan.routes) * 10 * cfg.max_route_distance + plan.total_distance)
    * InterdepartmentalFactor(plan, v)

\* calculate_plan_score, times 100 * max_route_distance: total_distance is
\* in units of 0.0001 degree
calculate_plan_score(cfg, plan, v) ==
  ((plan.transfers_count * 10 + SumPenalties(plan.routes)) * 10 * cfg.max_route_distance
     + plan.total_distance) * InterdepartmentalFactor(plan, v)

\* p put into the sequence s, sorted by score, behind every plan whose
\* score is not greater
InsertByScore(cfg, v, s, p) ==
  LET later == {i \in 1..Len(s) :
                  calculate_plan_score(cfg, p, v) < calculate_plan_score(cfg, s[i], v)}
      at == IF later = {} THEN Len(s) + 1 ELSE SetMin(later)
  IN  SubSeq(s, 1, at - 1) \o <<p>> \o SubSeq(s, at, Len(s))

\* optimize_results keeping the order of the search
optimize_results_unsorted(cfg, v, plans) == plans

\* optimize_results: Vec::sort_by (a stable sort) on the scores
RECURSIVE optimize_results(_, _, _)
optimize_results(cfg, v, plans) ==
  IF plans = << >> THEN << >>
  ELSE InsertByScore(cfg, v, optimize_results(cfg, v, SubSeq(plans, 1, Len(plans) - 1)),
                     plans[Len(plans)])

\* get_route_departments: the names of the departments that contain a
\* vertex of the route, in the order of the departments
get_route_departments(depts, code) ==
  LET coords == RouteCoords(code)
      touched == SelectSeq(depts, LAMBDA dept :
                   \E k \in 1..Len(coords) : MultiPolygonContains(dept.boundary, coords[k]))
  IN  [i \in 1..Len(touched) |-> touched[i].name]

\* plan_route, step 1, going on to the request whenever validate_route
\* returned Ok
PlanValidate_ok_only ==
  /\ pcR = "validate"
  /\ route_validation' = validate_route(departments, query_point, query_destination)
  /\ IF ~route_validation'.ok
     THEN /\ planned' = PlanErr("ValidationError", route_validation'.err)
          /\ pcR' = "done"
     ELSE /\ pcR' = "request"
          /\ UNCHANGED planned
  /\ UNCHANGED <<config, request>>
  /\ UNCHANGED <<department_collection, departments, pcV, query_point, validation,
                 query_destination>>
  /\ UNCHANGED <<dataVars, searchVars, precalcVars, cacheVars, scoreVars>>

\* plan_route, step 1: validate_route, its error handed on by `?`, and
\* InvalidCoordinates when an endpoint is not resolved
PlanValidate ==
  /\ pcR = "validate"
  /\ route_validation' = validate_route(departments, query_point, query_destination)
  /\ IF ~route_validation'.ok
     THEN /\ planned' = PlanErr("ValidationError", route_validation'.err)
          /\ pcR' = "done"
     ELSE IF ~route_validation'.val[1].is_valid
     THEN /\ planned' = PlanErr("ValidationError", "InvalidCoordinates")
          /\ pcR' = "done"
     ELSE /\ pcR' = "request"
          /\ UNCHANGED planned
  /\ UNCHANGED <<config, request>>
  /\ UNCHANGED <<department_collection, departments, pcV, query_point, validation,
                 query_destination>>
  /\ UNCHANGED <<dataVars, searchVars, precalcVars, cacheVars, scoreVars>>

\* plan_route, step 2
CreateRouteRequest ==
  /\ pcR = "request"
  /\ request' = create_route_request(config, query_point, query_destination,
                                     route_validation.val[1])
  /\ pcR' = "call"
  /\ UNCHANGED <<config, planned>>
  /\ UNCHANGED <<dataVars, searchVars, precalcVars, cacheVars, validateVars, scoreVars>>

\* plan_route, step 3: the call of find_routes_to_destination, which the
\* actions of the search carry out
CallSearch ==
  /\ pcR = "call"
  /\ origin' = request.origin
  /\ destination' = request.destination
  /\ max_transfers' = request.max_transfers
  /\ max_route_distance' = request.max_route_distance
  /\ pc' = "call"
  /\ pcR' = "search"
  /\ UNCHANGED <<origin_routes, destination_routes, visited, current_plan,
                 all_plans, stack, result, searched>>
  /\ UNCHANGED <<config, request, planned>>
  /\ UNCHANGED <<dataVars, precalcVars, cacheVars, validateVars, scoreVars>>

\* plan_route, steps 4 and 5, taking a failed search for an empty list and
\* returning whatever is left
PlanFinish_error_as_empty ==
  /\ pcR = "search"
  /\ pc = "done"
  /\ planned' =
       IF ~result.ok THEN PlanOk(<< >>)
       ELSE PlanOk(Take(optimize_results(config, route_validation.val[1], result.plans),
                        config.results_limit))
  /\ pcR' = "done"
  /\ UNCHANGED <<config, request>>
  /\ UNCHANGED <<dataVars, searchVars, precalcVars, cacheVars, validateVars, scoreVars>>

\* plan_route, steps 4 and 5: the error of the search handed on, else
\* optimize_results, NoValidRoutes on an empty list, and take(results_limit)
PlanFinish ==
  /\ pcR = "search"
  /\ pc = "done"
  /\ planned' =
       IF ~result.ok THEN PlanErr("SearchError", result.err)
       ELSE LET plans == optimize_results(config, route_validation.val[1], result.plans)
            IN  IF plans = << >> THEN PlanErr("NoValidRoutes", "")
                ELSE PlanOk(Take(plans, config.results_limit))
  /\ pcR' = "done"
  /\ UNCHANGED <<config, request>>
  /\ UNCHANGED <<dataVars, searchVars, precalcVars, cacheVars, validateVars, scoreVars>>

\* the department collections of the planner
PlanDepartmentCollections ==
  {c \in UNION {Perms(S) : S \in {T \in SUBSET DepartmentPool : Cardinality(T) = 2}} :
     <<c[1].nam, c[2].nam>> \in {<<"A", "B">>, <<"B", "D">>}}

\* the endpoints of the queries: in A, in the hole of A, two in B, in D,
\* beyond D
PlanPoints == {P(-25, 0), P(-15, 0), P(15, 0), P(25, 0), P(35, 0), P(55, 0)}

\* the route files of the planner: the routes of the pool that pass by the
\* departments
PlanDatasets ==
  {S \in SUBSET (PoolCodes \ {"5"}) : S # {} /\ Cardinality(S) <= MaxPlanRoutes}

InitPlan ==
  /\ routes \in PlanDatasets
  /\ routeOrder \in Perms(routes)
  /\ ~PrecalcPanics(routeOrder)
  /\ route_intersections = PrecalcMap(routeOrder)
  /\ SearchOff
  /\ PrecalcOff
  /\ CacheOff
  /\ ScoreOff
  /\ department_collection \in PlanDepartmentCollections
  /\ departments = [i \in 1..Len(department_collection) |->
                      DepartmentBoundary(department_collection[i])]
  /\ pcV = "ready"
  /\ validation = NotValidated
  /\ query_point \in PlanPoints
  /\ query_destination \in PlanPoints
  /\ route_validation = NoRouteValidation
  /\ config \in PlanConfigs
  /\ pcR = "validate"
  /\ request = NoRequest
  /\ planned = NotPlanned

NextPlan ==
  \/ PlanValidate
  \/ CreateRouteRequest
  \/ CallSearch
  \/ FindRoutesToDestination
  \/ StartRoute
  \/ ExploreEnter
  \/ ExploreTransfer
  \/ ExploreBacktrack
  \/ FinishSearch
  \/ PlanFinish

SpecPlan == InitPlan /\ [][NextPlan]_vars

(***************************************************************************)
(* calculate_plan_score on its own: two plans, scored under one            *)
(* configuration and one validation of the query.  A plan of t transfers   *)
(* has t + 1 segments; its tiers follow one of three patterns.             *)
(***************************************************************************)
\* the tiers of the n segments of a plan
TierPatterns(n) ==
  { [i \in 1..n |-> "Direct"],
    [i \in 1..n |-> "Near"],
    [i \in 1..n |-> IF i = 1 THEN "Proximate" ELSE "Direct"] }

\* the total distances of the plans scored, in units of 0.0001 degree
ScoreDistances == {0, 224}

\* a plan as add_segment leaves it, with the flag given
ScoredPlan(transfers, tiers, distance, flag) ==
  [routes |-> [i \in 1..(transfers + 1) |-> RouteSegment("1", None, tiers[i], 0)],
   total_distance |-> distance, transfers_count |-> transfers,
   is_interdepartmental |-> flag]

ScoredPlans ==
  {ScoredPlan(t, tiers, distance, flag) :
     t \in 0..MaxScoreTransfers, tiers \in TierPatterns(MaxScoreTransfers + 1),
     distance \in ScoreDistances, flag \in BOOLEAN}

\* the validations of a query that plan_route goes on with
ScoreValidations ==
  {ValidationResult(TRUE, Some("A"), Some(dest), dest # "A", 0) : dest \in {"A", "B"}}

\* the scores of the two plans
CalculatePlanScores ==
  /\ pcS = "score"
  /\ scores' = <<calculate_plan_score(config, score_plans[1], route_validation.val[1]),
                 calculate_plan_score(config, score_plans[2], route_validation.val[1])>>
  /\ pcS' = "scored"
  /\ UNCHANGED <<score_plans, config>>
  /\ UNCHANGED <<pcR, request, planned>>
  /\ UNCHANGED <<dataVars, searchVars, precalcVars, cacheVars, validateVars>>

InitScore ==
  /\ DataOff
  /\ SearchOff
  /\ PrecalcOff
  /\ CacheOff
  /\ department_collection = << >>
  /\ departments = << >>
  /\ pcV = "off"
  /\ query_point = P(0, 0)
  /\ validation = NotValidated
  /\ query_destination = P(0, 0)
  /\ route_validation \in {RouteOk(v) : v \in ScoreValidations}
  /\ config \in PlanConfigs
  /\ pcR = "off"
  /\ request = NoRequest
  /\ planned = NotPlanned
  /\ score_plans \in ScoredPlans \X ScoredPlans
  /\ scores = << >>
  /\ pcS = "score"

NextScore == CalculatePlanScores

SpecScore == InitScore /\ [][NextScore]_vars

(***************************************************************************)
(* Claims about the precomputation, checked under SpecPrecalc.             *)
(***************************************************************************)
Range(s) == {s[i] : i \in 1..Len(s)}
HasCoordinates(stop) == stop.longitud # None /\ stop.latitud # None
StopPoint(stop) == <<stop.longitud[1], stop.latitud[1]>>

\* a stop of a and a stop of b have the same coordinates
DirectQualifies(a, b) ==
  \E s1 \in Range(bus_stops(a)), s2 \in Range(bus_stops(b)) :
    /\ HasCoordinates(s1) /\ HasCoordinates(s2)
    /\ StopPoint(s1) = StopPoint(s2)
\* a stop of a is less than the near threshold from a stop of b
NearQualifies(a, b) ==
  \E s1 \in Range(bus_stops(a)), s2 \in Range(bus_stops(b)) :
    /\ HasCoordinates(s1) /\ HasCoordinates(s2)
    /\ DistSq(StopPoint(s1), StopPoint(s2)) < NearThreshold * NearThreshold
\* the transfer points recorded for the pair (a, b) in list
RecordedFor(list, b) == {tp \in Range(list) : tp.to_route = b}
\* the route pairs the closure of a compares
ComparedWith(a) == Range(find_potential_intersections(a, routeOrder)) \ {a}

\* C6: for every pair of routes that is compared, when a Direct transfer
\* qualifies the recorded TransferPoint is Direct with distance 0, and when
\* none does but a Near pair qualifies the recorded one is Near.
C6_TierPriority ==
  \A pair \in results :
    \A b \in ComparedWith(pair[1]) :
      /\ DirectQualifies(pair[1], b) =>
           /\ RecordedFor(pair[2], b) # {}
           /\ \A tp \in RecordedFor(pair[2], b) :
                tp.transfer_type = "Direct" /\ tp.distance_to_route = 0
      /\ (~DirectQualifies(pair[1], b) /\ NearQualifies(pair[1], b)) =>
           /\ RecordedFor(pair[2], b) # {}
           /\ \A tp \in RecordedFor(pair[2], b) : tp.transfer_type = "Near"

\* the closure of route 1 recorded a Direct transfer to route 2, whose stop
\* is at the same place, and a Near one to route 3, whose polyline is within
\* the proximate threshold too
C6_Witness ==
  \E pair \in results :
    /\ pair[1] = "1"
    /\ \E tp \in RecordedFor(pair[2], "2") : tp.transfer_type = "Direct"
    /\ \E tp \in RecordedFor(pair[2], "3") : tp.transfer_type = "Near"
    /\ NearQualifies("1", "2")
    /\ find_proximate_transfer("1", "3", ProximateThreshold).val # None

BothRunsBuilt ==
  /\ run = 2
  /\ pcP = "built"
  /\ firstRun # None
  /\ ~firstRun[1].aborted

\* C7 as claimed: the second run on the unchanged dataset produces the same
\* adjacency map as the first: the same keys and the same list under each.
C7_SameLists_AsClaimed ==
  BothRunsBuilt => route_intersections = firstRun[1].map

\* What the runs do share: whatever the number of workers and their
\* interleaving, a run produces the map that the dataset and the iteration
\* order of its routes table determine; two runs on the unchanged dataset
\* either both abort or produce the same keys and, under each key, the same
\* set of TransferPoints in lists of the same length.
RerunSameSets ==
  /\ pcP = "built" => route_intersections = PrecalcMap(routeOrder)
  /\ (run = 2 /\ pcP \in {"built", "aborted"}) =>
       (firstRun[1].aborted <=> pcP = "aborted")
  /\ BothRunsBuilt =>
       /\ DOMAIN route_intersections = DOMAIN firstRun[1].map
       /\ DOMAIN route_intersections = routes
       /\ \A code \in routes :
            /\ Range(route_intersections[code]) = Range(firstRun[1].map[code])
            /\ Len(route_intersections[code]) = Len(firstRun[1].map[code])

\* both runs built a map and the lists of a route differ in their order
RerunOrderDiffers ==
  /\ BothRunsBuilt
  /\ \E code \in routes :
       /\ route_intersections[code] # firstRun[1].map[code]
       /\ Range(route_intersections[code]) = Range(firstRun[1].map[code])

(***************************************************************************)
(* Claims about find_routes_to_destination, checked under SpecSearch.      *)
(***************************************************************************)
Returned == pc = "done" /\ result.ok
ReturnedPlans == {result.plans[i] : i \in 1..Len(result.plans)}
RouteCodesOf(plan) == {plan.routes[i].route : i \in 1..Len(plan.routes)}

\* whether the route has a vertex within d of p
VertexWithin(code, p, d) ==
  \E i \in 1..Len(RouteCoords(code)) : DistSq(RouteCoords(code)[i], p) <= d * d
\* whether the polyline of the route comes within d of p
PolylineWithin(code, p, d) ==
  \E i \in 1..(Len(RouteCoords(code)) - 1) :
    SegWithin(RouteCoords(code)[i], RouteCoords(code)[i + 1], p, d)

\* C1: every plan find_routes_to_destination returns has transfers_count <=
\* max_transfers (stated for the budgets that are not negative).  The code
\* violates it: explore_route_path returns from the destination branch
\* without taking the final segment off current_plan, so the pop of its
\* caller removes the final segment and leaves the transfer's segment in the
\* plan; the next plan of the same start route holds that stale segment.
C1_TransfersWithinBudget ==
  (Returned /\ max_transfers >= 0) =>
    \A plan \in ReturnedPlans : plan.transfers_count <= max_transfers

\* C2: no plan find_routes_to_destination returns has two segments with the
\* same route code.  The code violates it for the same reason as C1: the
\* stale segment and the next transfer's segment are both on the start route.
C2_NoRouteTwice ==
  Returned =>
    \A plan \in ReturnedPlans :
      \A j, k \in 1..Len(plan.routes) :
        plan.routes[j].route = plan.routes[k].route => j = k

ScenarioAData == routes = {"1", "2"} /\ max_transfers >= 1
ScenarioA ==
  /\ ScenarioAData
  /\ origin = P(-20, -10)
  /\ destination = P(20, 10)
  /\ max_route_distance = DefaultMaxRouteDistance
\* a plan of one transfer, made at the shared stop, Direct with distance 0
OneTransferAtSharedStop(plan) ==
  /\ plan.transfers_count = 1
  /\ Len(plan.routes) = 2
  /\ plan.routes[1].route = "1"
  /\ plan.routes[2].route = "2"
  /\ plan.routes[1].transfer_type = "Direct"
  /\ plan.routes[1].transfer_point.transfer_type = "Direct"
  /\ plan.routes[1].transfer_point.location = P(0, 0)
  /\ plan.routes[1].transfer_point.distance_to_route = 0

\* C3 as claimed: in scenario A, from route 1's start to route 2's end with
\* max_transfers >= 1 and max_route_distance 0.05, exactly one plan is
\* returned, with one transfer, Direct with distance 0 at the shared stop.
C3_ScenarioA_AsClaimed ==
  (pc = "done" /\ ScenarioA) =>
    /\ result.ok
    /\ Len(result.plans) = 1
    /\ OneTransferAtSharedStop(result.plans[1])

\* C3 amended: in scenario A each route has a vertex within 0.05 of both
\* endpoints, so two plans are returned, one per route, each without
\* transfer; when only route 1 has a vertex within max_route_distance of the
\* origin and only route 2 one within it of the destination, exactly one
\* plan is returned, with one transfer, Direct with distance 0 at the shared
\* stop.
C3_ScenarioA_Amended ==
  /\ (pc = "done" /\ ScenarioA) =>
       /\ result.ok
       /\ Len(result.plans) = 2
       /\ \A plan \in ReturnedPlans :
            plan.transfers_count = 0 /\ Len(plan.routes) = 1
       /\ {plan.routes[1].route : plan \in ReturnedPlans} = {"1", "2"}
  /\ (/\ pc = "done"
      /\ ScenarioAData
      /\ VertexWithin("1", origin, max_route_distance)
      /\ ~VertexWithin("2", origin, max_route_distance)
      /\ VertexWithin("2", destination, max_route_distance)
      /\ ~VertexWithin("1", destination, max_route_distance)) =>
       /\ result.ok
       /\ Len(result.plans) = 1
       /\ OneTransferAtSharedStop(result.plans[1])

C3_Witness ==
  /\ pc = "done"
  /\ ScenarioAData
  /\ origin = P(-60, -10)
  /\ destination = P(60, 10)
  /\ max_route_distance = DefaultMaxRouteDistance
  /\ result.ok
  /\ Len(result.plans) = 1
  /\ result.plans[1].transfers_count = 1

\* C4 as claimed: when origin and destination are both within 0.05 of the
\* polyline of one route and of the polyline of no other, one plan without
\* transfer is returned.
C4_ScenarioB_AsClaimed ==
  (/\ pc = "done"
   /\ max_route_distance = DefaultMaxRouteDistance
   /\ \E r \in routes :
        /\ PolylineWithin(r, origin, max_route_distance)
        /\ PolylineWithin(r, destination, max_route_distance)
        /\ \A o \in routes \ {r} :
             /\ ~PolylineWithin(o, origin, max_route_distance)
             /\ ~PolylineWithin(o, destination, max_route_distance)) =>
    /\ result.ok
    /\ Len(result.plans) = 1
    /\ result.plans[1].transfers_count = 0

\* C4 amended: when origin and destination are both within 0.05 of a vertex
\* of one route and no other route has a vertex within 0.05 of either, one
\* plan is returned; it has no transfer and its one segment is on that route.
C4_ScenarioB_Amended ==
  \A r \in routes :
    (/\ pc = "done"
     /\ max_route_distance = DefaultMaxRouteDistance
     /\ VertexWithin(r, origin, max_route_distance)
     /\ VertexWithin(r, destination, max_route_distance)
     /\ \A o \in routes \ {r} :
          /\ ~VertexWithin(o, origin, max_route_distance)
          /\ ~VertexWithin(o, destination, max_route_distance)) =>
      /\ result.ok
      /\ Len(result.plans) = 1
      /\ result.plans[1].transfers_count = 0
      /\ RouteCodesOf(result.plans[1]) = {r}

C4_Witness ==
  /\ pc = "done"
  /\ max_route_distance = DefaultMaxRouteDistance
  /\ Cardinality(routes) > 1
  /\ origin = P(-70, 60)
  /\ destination = P(70, 60)
  /\ result.ok
  /\ RouteCodesOf(result.plans[1]) = {"5"}

\* C5: find_routes_to_destination fails with NoRoutesNearOrigin exactly when
\* no route has a vertex within max_route_distance of the origin, and
\* otherwise with NoRoutesNearDestination exactly when none has one within
\* it of the destination; in both cases find_all_possible_routes is not run.
C5_NoRoutesNearErrors ==
  pc = "done" =>
    LET nearOrigin == \E r \in routes : VertexWithin(r, origin, max_route_distance)
        nearDest   == \E r \in routes : VertexWithin(r, destination, max_route_distance)
    IN  /\ (result = Err("NoRoutesNearOrigin")) <=> ~nearOrigin
        /\ (result = Err("NoRoutesNearDestination")) <=> (nearOrigin /\ ~nearDest)
        /\ (~nearOrigin \/ ~nearDest) => (~searched /\ all_plans = << >>)
        /\ (nearOrigin /\ nearDest) => searched

\* the origin is near no route and the destination is near none either
C5_Witness ==
  /\ pc = "done"
  /\ result = Err("NoRoutesNearOrigin")
  /\ \A r \in routes : ~VertexWithin(r, destination, max_route_distance)
  /\ \E r \in routes : VertexWithin(r, destination, DefaultMaxRouteDistance)

(***************************************************************************)
(* Claims about the cache file, checked under SpecCache.                   *)
(***************************************************************************)
\* C8: when save_to_file has written a map and load_from_file then reads
\* the file of the same directory, it returns Some(cache) whose
\* intersections map equals the saved map: the same keys and, under each
\* key, the same TransferPoints with the same fields in the same order.
C8_CacheRoundTrip ==
  (pcC = "loaded" /\ saved # None /\ loadResult.kind # "Err") =>
    /\ loadResult.kind = "OkSome"
    /\ DOMAIN loadResult.cache[1].intersections = DOMAIN saved[1]
    /\ \A code \in DOMAIN saved[1] :
         loadResult.cache[1].intersections[code] = saved[1][code]

\* a construction loaded the file that an earlier one saved, a map of two
\* keys or more with a transfer point that holds a bus stop
C8_Witness ==
  /\ pcC = "loaded"
  /\ saved # None
  /\ loadResult.kind = "OkSome"
  /\ Cardinality(DOMAIN saved[1]) >= 2
  /\ \E code \in DOMAIN saved[1] :
       \E i \in 1..Len(saved[1][code]) : saved[1][code][i].bus_stop # None

(***************************************************************************)
(* Claims about validate_point, checked under SpecValidate.  What a        *)
(* department is on the ground is read from its feature: the polygon of a  *)
(* Polygon, every part of a MultiPolygon.                                  *)
(***************************************************************************)
\* the polygons of a department feature
PolygonsOf(feature) ==
  IF feature.geometry.type = "Polygon"
  THEN <<Polygon(Head(feature.geometry.coordinates), Tail(feature.geometry.coordinates))>>
  ELSE [i \in 1..Len(feature.geometry.coordinates) |->
          Polygon(Head(feature.geometry.coordinates[i]),
                  Tail(feature.geometry.coordinates[i]))]

InsideDepartment(feature, p) == MultiPolygonContains(PolygonsOf(feature), p)
NearerDepartment(feature, p, d) == MultiPolygonNearer(PolygonsOf(feature), p, d)

\* the departments of the collection that hold the query point
HoldingDepartments ==
  {i \in 1..Len(department_collection) :
     InsideDepartment(department_collection[i], query_point)}

\* C9: for a point inside exactly one department's polygon boundary, a
\* multi-part polygon included, validate_point returns Ok(Some(name)) with
\* the name of that department.
C9_InsideReturnsName ==
  (pcV = "validated" /\ Cardinality(HoldingDepartments) = 1) =>
    \A i \in HoldingDepartments :
      validation = ValidOk(Some(department_collection[i].nam))

\* What holds of C9: it holds of the departments whose geometry is a Polygon.
InsidePolygonReturnsName ==
  (pcV = "validated" /\ Cardinality(HoldingDepartments) = 1) =>
    \A i \in HoldingDepartments :
      department_collection[i].geometry.type = "Polygon" =>
        validation = ValidOk(Some(department_collection[i].nam))

\* C10: for a point that no department contains, validate_point returns
\* Ok(None) when the least distance from the point to a department boundary
\* is below 0.01 and fails with OutsideCountry when it is 0.01 or more.
C10_OutsideByDistance ==
  (pcV = "validated" /\ HoldingDepartments = {}) =>
    IF \E i \in 1..Len(department_collection) :
         NearerDepartment(department_collection[i], query_point, NearBoundaryThreshold)
    THEN validation = ValidOk(None)
    ELSE validation = ValidErr("OutsideCountry")

\* What holds of C10: it holds when every department is a Polygon.
OutsidePolygonsByDistance ==
  (/\ pcV = "validated"
   /\ HoldingDepartments = {}
   /\ \A i \in 1..Len(department_collection) :
        department_collection[i].geometry.type = "Polygon") =>
    IF \E i \in 1..Len(department_collection) :
         NearerDepartment(department_collection[i], query_point, NearBoundaryThreshold)
    THEN validation = ValidOk(None)
    ELSE validation = ValidErr("OutsideCountry")

(***************************************************************************)
(* Claims about validate_route, checked under SpecValidate.                *)
(***************************************************************************)
\* C11: with a validator built from an empty department collection,
\* validate_point returns Ok for any point and validate_route returns Ok
\* for any pair of points.
C11_EmptyCollectionAccepts ==
  department_collection = << >> =>
    /\ pcV = "validated" => validation.ok
    /\ pcV = "route_validated" => route_validation.ok

\* the outcomes of validate_point for the two endpoints of the route query
OriginOutcome == validate_point(departments, query_point)
DestinationOutcome == validate_point(departments, query_destination)

\* C12: when validate_point fails for the origin or for the destination,
\* validate_route fails with that same error, the origin's when both fail,
\* and returns no ValidationResult.
C12_RouteFailsWithEndpointError ==
  pcV = "route_validated" =>
    /\ ~OriginOutcome.ok => route_validation = RouteErr(OriginOutcome.err)
    /\ (OriginOutcome.ok /\ ~DestinationOutcome.ok) =>
         route_validation = RouteErr(DestinationOutcome.err)

\* the origin is inside a department, the destination is rejected, and
\* validate_route failed with OutsideCountry
C12_Witness ==
  /\ pcV = "route_validated"
  /\ OriginOutcome.ok
  /\ OriginOutcome.department # None
  /\ ~DestinationOutcome.ok
  /\ route_validation = RouteErr("OutsideCountry")

\* C13: when validate_route succeeds, is_interdepartmental is true exactly
\* when both endpoints resolved to a department and the names differ, and
\* is_valid is true exactly when both endpoints resolved to a department.
C13_RouteFlags ==
  (pcV = "route_validated" /\ route_validation.ok) =>
    LET v == route_validation.val[1]
        bothResolved == OriginOutcome.department # None
                          /\ DestinationOutcome.department # None
    IN  /\ v.is_valid <=> bothResolved
        /\ v.is_interdepartmental <=>
             (bothResolved /\ OriginOutcome.department # DestinationOutcome.department)
        /\ v.origin_department = OriginOutcome.department
        /\ v.destination_department = DestinationOutcome.department

\* validate_route succeeded with one endpoint inside a department and the
\* other near a boundary: not interdepartmental, not valid
RouteNearBoundaryNotValid ==
  /\ pcV = "route_validated"
  /\ route_validation.ok
  /\ OriginOutcome.department # None
  /\ DestinationOutcome.department = None
  /\ ~route_validation.val[1].is_valid
  /\ ~route_validation.val[1].is_interdepartmental

\* validate_route succeeded for endpoints in two departments
C13_Witness ==
  /\ pcV = "route_validated"
  /\ route_validation.ok
  /\ route_validation.val[1].is_valid
  /\ route_validation.val[1].is_interdepartmental

(***************************************************************************)
(* Claims about plan_route, checked under SpecPlan.                        *)
(***************************************************************************)
\* the destinations of the planner's inputs in the department of the origin
SameDepartmentDestinations ==
  {d \in PlanPoints :
     LET v == validate_route(departments, query_point, d)
     IN  v.ok /\ v.val[1].is_valid /\ ~v.val[1].is_interdepartmental}

\* the request plan_route builds for the origin of the query and destination d
RequestFor(d) ==
  create_route_request(config, query_point, d,
                       validate_route(departments, query_point, d).val[1])

C15_UnresolvedFailsWithoutSearch ==
  (pcR # "validate"
     /\ (~OriginOutcome.ok \/ ~DestinationOutcome.ok
           \/ OriginOutcome.department = None \/ DestinationOutcome.department = None)) =>
    /\ pcR = "done"
    /\ pc = "off"
    /\ ~searched
    /\ result = NoResult
    /\ request = NoRequest
    /\ planned =
         IF ~OriginOutcome.ok THEN PlanErr("ValidationError", OriginOutcome.err)
         ELSE IF ~DestinationOutcome.ok
         THEN PlanErr("ValidationError", DestinationOutcome.err)
         ELSE PlanErr("ValidationError", "InvalidCoordinates")

\* plan_route failed with InvalidCoordinates: the origin is inside a
\* department and validate_point returned None for the destination
C15_Witness ==
  /\ pcR = "done"
  /\ OriginOutcome.ok
  /\ OriginOutcome.department # None
  /\ DestinationOutcome.ok
  /\ DestinationOutcome.department = None
  /\ planned = PlanErr("ValidationError", "InvalidCoordinates")
  /\ pc = "off"

\* plan_route failed with the OutsideCountry of the destination
PlanOutsideCountry ==
  /\ pcR = "done"
  /\ OriginOutcome.ok
  /\ ~DestinationOutcome.ok
  /\ planned = PlanErr("ValidationError", "OutsideCountry")
  /\ pc = "off"

(***************************************************************************)
(* Claims about calculate_plan_score, checked under SpecScore.             *)
(***************************************************************************)
\* the two plans scored have the same total distance and the same sum of
\* tier penalties, and the first has fewer transfers
FewerTransfersOtherwiseEqual ==
  /\ pcS = "scored"
  /\ score_plans[1].total_distance = score_plans[2].total_distance
  /\ SumPenalties(score_plans[1].routes) = SumPenalties(score_plans[2].routes)
  /\ score_plans[1].transfers_count < score_plans[2].transfers_count

\* C16 as claimed: of two plans with the same total distance and the same
\* sum of tier penalties, scored for the same query, the one with fewer
\* transfers gets the strictly lower score, whatever the flags
\* is_interdepartmental of the plans.
C16_FewerTransfersLower_AsClaimed ==
  FewerTransfersOtherwiseEqual => scores[1] < scores[2]

\* C16: of two plans with the same total distance, the same sum of tier
\* penalties and the same flag is_interdepartmental, scored for the same
\* query, the one with fewer transfers gets the strictly lower score.
C16_FewerTransfersLower ==
  (FewerTransfersOtherwiseEqual
     /\ score_plans[1].is_interdepartmental = score_plans[2].is_interdepartmental) =>
    scores[1] < scores[2]

\* two interdepartmental plans of an interdepartmental query, equal but for
\* the transfers, are scored
C16_Witness ==
  /\ FewerTransfersOtherwiseEqual
  /\ route_validation.val[1].is_interdepartmental
  /\ score_plans[1].is_interdepartmental
  /\ score_plans[2].is_interdepartmental
  /\ scores[1] < scores[2]

\* the sum of the three factors of the score before the interdepartmental
\* bonus or penalty, times 10 * max_route_distance
SummedScore(plan) ==
  plan.transfers_count * 100 * config.max_route_distance
    + plan.total_distance
    + SumPenalties(plan.routes) * 10 * config.max_route_distance

\* C17 as claimed: the summed score is multiplied by 0.8 when the flag of
\* the plan equals the interdepartmental classification of the query (both
\* true or both false) and by 1.2 when the two differ.
C17_FactorByMatch_AsClaimed ==
  pcS = "scored" =>
    \A i \in 1..2 :
      scores[i] =
        IF score_plans[i].is_interdepartmental
             = route_validation.val[1].is_interdepartmental
        THEN SummedScore(score_plans[i]) * 8
        ELSE SummedScore(score_plans[i]) * 12

\* C17: the summed score is multiplied by 0.8 when the plan and the query
\* are both interdepartmental, by 1.2 when the plan is interdepartmental
\* and the query is not, and is left unchanged when the plan is not
\* interdepartmental.
C17_FactorByPlanFlag ==
  pcS = "scored" =>
    \A i \in 1..2 :
      scores[i] =
        IF ~score_plans[i].is_interdepartmental
        THEN SummedScore(score_plans[i]) * 10
        ELSE IF route_validation.val[1].is_interdepartmental
        THEN SummedScore(score_plans[i]) * 8
        ELSE SummedScore(score_plans[i]) * 12

\* a plan that is not interdepartmental was scored for a query that is not
\* and for one that is, a plan that is for both, and the scores are not zero
C17_Witness ==
  /\ pcS = "scored"
  /\ ~score_plans[1].is_interdepartmental
  /\ score_plans[2].is_interdepartmental
  /\ ~route_validation.val[1].is_interdepartmental
  /\ scores[1] = SummedScore(score_plans[1]) * 10
  /\ scores[2] = SummedScore(score_plans[2]) * 12
  /\ scores[1] > 0

\* the score plan_route gives to the i-th plan the search returned
FoundScore(i) == calculate_plan_score(config, result.plans[i], route_validation.val[1])

\* the i-th plan the search returned is ranked before the j-th: a lower
\* score, or the same score and found earlier
RankedBefore(i, j) ==
  FoundScore(i) < FoundScore(j) \/ (FoundScore(i) = FoundScore(j) /\ i < j)

\* C18: when plan_route succeeds, the returned list has at most
\* results_limit plans, in the order of non-decreasing score, plans of
\* equal score in the order the search returned them; they are the best
\* plans of the search.
C18_BestFirstWithinLimit ==
  (pcR = "done" /\ planned.ok) =>
    LET n == Len(planned.plans)
        m == Len(result.plans)
    IN  /\ n <= config.results_limit
        /\ \E f \in [1..n -> 1..m] :
             /\ \A i \in 1..n : planned.plans[i] = result.plans[f[i]]
             /\ \A i, j \in 1..n : i < j => RankedBefore(f[i], f[j])
             /\ \A i \in 1..n : \A k \in (1..m) \ {f[j] : j \in 1..n} :
                  RankedBefore(f[i], k)

\* plan_route returned two plans or more, in another order than the search
\* found them, and left out a plan of the search
C18_Witness ==
  /\ pcR = "done"
  /\ planned.ok
  /\ Len(planned.plans) >= 2
  /\ Len(planned.plans) < Len(result.plans)
  /\ planned.plans # Take(result.plans, Len(planned.plans))

\* plan_route returned two plans of the same score
ReturnedEqualScores ==
  /\ pcR = "done"
  /\ planned.ok
  /\ \E i, j \in 1..Len(result.plans) :
       /\ i < j
       /\ FoundScore(i) = FoundScore(j)
       /\ result.plans[i] # result.plans[j]
       /\ \E a, b \in 1..Len(planned.plans) :
            a < b /\ planned.plans[a] = result.plans[i]
                  /\ planned.plans[b] = result.plans[j]

\* C19 as claimed: plan_route never returns Ok with an empty list of
\* plans, whatever the configuration and its results_limit.
C19_NeverOkEmpty_AsClaimed ==
  (pcR = "done" /\ planned.ok) => planned.plans # << >>

\* C19: with a results_limit of 1 or more plan_route never returns Ok with
\* an empty list of plans: it returns Ok exactly when the search returned
\* plans, and fails with the error of the search otherwise; with a
\* results_limit of 0 it returns Ok with the empty list when the search
\* returned plans.
C19_NeverOkEmpty ==
  (pcR = "done" /\ pc = "done") =>
    /\ planned.ok <=> result.ok
    /\ ~result.ok => planned = PlanErr("SearchError", result.err)
    /\ result.ok => result.plans # << >>
    /\ (planned.ok /\ config.results_limit >= 1) => planned.plans # << >>
    /\ (planned.ok /\ config.results_limit = 0) => planned.plans = << >>

\* the search found routes near both endpoints and no plan, and plan_route
\* failed with its NoValidPath
C19_Witness ==
  /\ pcR = "done"
  /\ config.results_limit >= 1
  /\ result = Err("NoValidPath")
  /\ planned = PlanErr("SearchError", "NoValidPath")

\* plan_route returned Ok with no plan, the search having returned plans
OkEmptyWithLimitZero ==
  /\ pcR = "done"
  /\ config.results_limit = 0
  /\ result.ok
  /\ result.plans # << >>
  /\ planned = PlanOk(<< >>)

\* the departments touched by the routes of the segments of a plan
DepartmentsTouched(plan) ==
  UNION {{get_route_departments(departments, plan.routes[k].route)[n] :
            n \in 1..Len(get_route_departments(departments, plan.routes[k].route))} :
         k \in 1..Len(plan.routes)}

\* C20: every plan returned by find_routes_to_destination and by
\* plan_route has is_interdepartmental = true exactly when the routes of
\* its segments touch more than one department.
C20_FlagFromDepartmentsTouched ==
  /\ (pc = "done" /\ result.ok) =>
       \A i \in 1..Len(result.plans) :
         result.plans[i].is_interdepartmental
           <=> Cardinality(DepartmentsTouched(result.plans[i])) > 1
  /\ (pcR = "done" /\ planned.ok) =>
       \A i \in 1..Len(planned.plans) :
         planned.plans[i].is_interdepartmental
           <=> Cardinality(DepartmentsTouched(planned.plans[i])) > 1

\* every plan returned has the flag false
FlagAlwaysFalse ==
  /\ \A i \in 1..Len(all_plans) : ~all_plans[i].is_interdepartmental
  /\ \A i \in 1..Len(result.plans) : ~result.plans[i].is_interdepartmental
  /\ \A i \in 1..Len(planned.plans) : ~planned.plans[i].is_interdepartmental

\* plan_route returned a plan whose one route has vertices in two
\* departments
ReturnedPlanAcrossDepartments ==
  /\ pcR = "done"
  /\ planned.ok
  /\ \E i \in 1..Len(planned.plans) :
       /\ Len(planned.plans[i].routes) = 1
       /\ Cardinality(DepartmentsTouched(planned.plans[i])) = 2

(***************************************************************************)
(* Claims about the list find_routes_to_destination returns and about      *)
(* explore_route_path, checked under SpecSearch.                           *)
(***************************************************************************)
\* plan a comes before plan b in the order (transfers_count, total_distance)
KeyBefore(a, b) ==
  \/ a.transfers_count < b.transfers_count
  \/ (a.transfers_count = b.transfers_count /\ a.total_distance < b.total_distance)

\* C21: find_routes_to_destination returns at most 3 plans, in the order of
\* (transfers_count ascending, then total_distance ascending), and no plan
\* enumerated and left out comes before a returned plan in that order.
C21_BestThreeInOrder ==
  (pc = "done" /\ result.ok) =>
    LET n == Len(result.plans)
        m == Len(all_plans)
    IN  /\ n <= 3
        /\ n = 3 \/ n = m
        /\ \A i, j \in 1..n : i < j => ~KeyBefore(result.plans[j], result.plans[i])
        /\ \E f \in [1..n -> 1..m] :
             /\ \A i, j \in 1..n : f[i] = f[j] => i = j
             /\ \A i \in 1..n : result.plans[i] = all_plans[f[i]]
             /\ \A k \in (1..m) \ {f[i] : i \in 1..n} :
                  \A i \in 1..n : ~KeyBefore(all_plans[k], result.plans[i])

\* more than 3 plans were enumerated, two of them with the same
\* transfers_count in the descending order of total_distance, and the list
\* returned is not the first three of the enumeration
C21_Witness ==
  /\ pc = "done"
  /\ result.ok
  /\ Len(all_plans) > 3
  /\ Len(result.plans) = 3
  /\ result.plans # Take(all_plans, 3)
  /\ \E i, j \in 1..Len(all_plans) :
       /\ i < j
       /\ all_plans[i].transfers_count = all_plans[j].transfers_count
       /\ all_plans[i].total_distance > all_plans[j].total_distance

(***************************************************************************)
(* Claims about the cache at construction, checked under SpecCache.        *)
(***************************************************************************)
\* C22: when the cache is absent or loading it fails in any way (a file
\* that does not decode, an error opening it), SpatialSearch::new computes
\* the adjacency map and then attempts to save it; a save that fails does
\* not fail the construction and leaves the computed map in use.
C22_FallbackRecomputesAndSaves ==
  [][/\ (pcC = "loaded" /\ loadResult.kind \in {"OkNone", "Err"}
           /\ pcC' # "panicked") =>
          /\ route_intersections' = PrecalcMap(routeOrder)
          /\ pcC' = "save"
     /\ pcC = "save" =>
          /\ pcC' = "done"
          /\ route_intersections' = route_intersections
          /\ route_intersections = PrecalcMap(routeOrder)]_vars

\* a construction whose load failed with an error ended with the computed
\* map and the cache file as it was
LoadErrorLeavesFile ==
  [][(pcC = "loaded" /\ loadResult.kind = "Err" /\ pcC' # "panicked") =>
       /\ route_intersections' = PrecalcMap(routeOrder)
       /\ pcC' = "done"
       /\ cacheFile' = cacheFile]_vars

\* a construction whose load returned Ok(None) goes on to the save, and the
\* save, failed or not, ends the construction with the computed map
LoadNoneSaves ==
  [][/\ (pcC = "loaded" /\ loadResult.kind = "OkNone" /\ pcC' # "panicked") =>
          /\ route_intersections' = PrecalcMap(routeOrder)
          /\ pcC' = "save"
     /\ pcC = "save" =>
          /\ pcC' = "done"
          /\ route_intersections' = route_intersections]_vars

\* the load failed with an error on a file that exists, and the
\* construction is over with a map of two keys, nothing saved
LoadErrorDone ==
  /\ pcC = "done"
  /\ loadResult.kind = "Err"
  /\ construction = 1
  /\ cacheFile \in InitialFiles
  /\ Cardinality(DOMAIN route_intersections) >= 2
  /\ saved = None

(***************************************************************************)
(* Claims about the adjacency map, checked under SpecPrecalc.              *)
(***************************************************************************)
\* a vertex of a is less than the proximate threshold from a vertex of b
ProximateQualifies(a, b) ==
  \E p1 \in Range(RouteCoords(a)), p2 \in Range(RouteCoords(b)) :
    DistSq(p1, p2) < ProximateThreshold * ProximateThreshold

\* C23: after the precomputation the adjacency map holds, under each route
\* code A, at most one TransferPoint per destination route B; every entry
\* has from_route = A, to_route = B with B another known route; and no
\* entry exists for a pair for which no tier qualifies.
C23_OneEntryPerPair ==
  pcP = "built" =>
    \A a \in DOMAIN route_intersections :
      LET list == route_intersections[a]
      IN  /\ a \in routes
          /\ \A i, j \in 1..Len(list) : list[i].to_route = list[j].to_route => i = j
          /\ \A i \in 1..Len(list) :
               /\ list[i].from_route = a
               /\ list[i].to_route # a
               /\ list[i].to_route \in routes
          /\ \A b \in routes \ {a} :
               (~DirectQualifies(a, b) /\ ~NearQualifies(a, b)
                  /\ ~ProximateQualifies(a, b)) => RecordedFor(list, b) = {}

\* a map was built in which a route has an entry towards a route and none
\* towards another, for which no tier qualifies
C23_Witness ==
  /\ pcP = "built"
  /\ \E a \in DOMAIN route_intersections :
       /\ Len(route_intersections[a]) >= 1
       /\ \E b \in routes \ {a} :
            /\ ~DirectQualifies(a, b) /\ ~NearQualifies(a, b)
            /\ ~ProximateQualifies(a, b)
            /\ RecordedFor(route_intersections[a], b) = {}

\* C24: after the recursive call for a transfer returns, whether or not it
\* emitted plans, the plan in progress has exactly the segments it had
\* before the segment of that transfer was appended, and the visited set is
\* what it was before the target route of the transfer was inserted.
C24_BacktrackRestores ==
  [][(pc = "explore" /\ Top.phase = "after") =>
       /\ current_plan'.routes = Top.routes_before
       /\ visited' = Top.visited_before]_vars

\* the visited set is restored by every backtracking step
BacktrackRestoresVisited ==
  [][(pc = "explore" /\ Top.phase = "after") => visited' = Top.visited_before]_vars

\* the segments are restored when the recursive call emitted no plan and
\* none was emitted before on this start route
BacktrackRestoresWithoutPlan ==
  [][(pc = "explore" /\ Top.phase = "after"
        /\ \A i \in 1..Len(all_plans) : all_plans[i].routes[1].route # stack[1].route) =>
       current_plan'.routes = Top.routes_before]_vars

\* the recursive call of a transfer emitted a plan, and the transfer's
\* segment is still in the plan before the backtracking step
ReturnedAfterPlan ==
  /\ pc = "explore"
  /\ Top.phase = "after"
  /\ all_plans # << >>
  /\ all_plans[Len(all_plans)] = current_plan
  /\ Len(current_plan.routes) = Len(Top.routes_before) + 2

RECURSIVE SumSegmentDistances(_)
SumSegmentDistances(segments) ==
  IF segments = << >> THEN 0
  ELSE Head(segments).segment_distance + SumSegmentDistances(Tail(segments))

\* C25: in every plan returned by find_routes_to_destination,
\* transfers_count is the number of segments minus 1 and total_distance is
\* the sum of the segment_distance of the plan's own segments.
C25_CountAndDistanceOfOwnSegments ==
  (pc = "done" /\ result.ok) =>
    \A i \in 1..Len(result.plans) :
      /\ result.plans[i].transfers_count = Len(result.plans[i].routes) - 1
      /\ result.plans[i].total_distance = SumSegmentDistances(result.plans[i].routes)

\* transfers_count is the number of segments minus 1 in every plan, and
\* total_distance is never less than the sum over the plan's segments
CountOfOwnSegments ==
  \A i \in 1..Len(all_plans) :
    /\ all_plans[i].transfers_count = Len(all_plans[i].routes) - 1
    /\ all_plans[i].total_distance >= SumSegmentDistances(all_plans[i].routes)

\* a returned plan carries the distance of a segment that is not its own
ReturnedForeignDistance ==
  /\ pc = "done"
  /\ result.ok
  /\ \E i \in 1..Len(result.plans) :
       /\ result.plans[i].total_distance > SumSegmentDistances(result.plans[i].routes)
       /\ result.plans[i].transfers_count = Len(result.plans[i].routes) - 1

(***************************************************************************)
(* Claims about the widening near a boundary, checked under SpecPlan.      *)
(***************************************************************************)
\* the origin is nearer than d to a line of the boundary of a department
OriginNearEdge(d) ==
  \E i \in 1..Len(departments) :
    \E k \in 1..Len(departments[i].boundary) :
      \/ RingNearer(departments[i].boundary[k].exterior, query_point, d)
      \/ \E h \in 1..Len(departments[i].boundary[k].interiors) :
           RingNearer(departments[i].boundary[k].interiors[h], query_point, d)

\* twice the max_route_distance of the request before the factor 1.2
TwiceWidened ==
  IF route_validation.val[1].is_interdepartmental
  THEN 3 * config.max_route_distance
  ELSE 2 * config.max_route_distance

RequestBuilt ==
  /\ pcR \in {"call", "search", "done"}
  /\ route_validation.ok
  /\ route_validation.val[1].is_valid

\* C26: plan_route multiplies max_route_distance by 1.2 exactly when the
\* origin lies within max_transfer_distance of a department boundary; for
\* an origin inside a department and farther than that from its edge the
\* factor is not applied.
C26_WidenedNearEdgeOnly ==
  RequestBuilt =>
    IF OriginNearEdge(config.max_transfer_distance)
    THEN 10 * request.max_route_distance = 6 * TwiceWidened
    ELSE 2 * request.max_route_distance = TwiceWidened

\* the factor 1.2 is applied to every request that is built
WidenedAlways ==
  RequestBuilt =>
    /\ route_validation.val[1].distance_to_boundary = 0
    /\ 10 * request.max_route_distance = 6 * TwiceWidened

\* a request was built for an origin inside a department and farther than
\* max_transfer_distance from every edge, with the factor 1.2
WidenedFarFromEdge ==
  /\ RequestBuilt
  /\ OriginOutcome.department # None
  /\ ~OriginNearEdge(config.max_transfer_distance)
  /\ 10 * request.max_route_distance = 6 * TwiceWidened

(***************************************************************************)
(* Claims about the pruning and about stops without coordinates, checked   *)
(* under SpecPrecalc.                                                      *)
(***************************************************************************)
\* the transfer points find_best_transfer returns for route a towards every
\* other route
BestTransfersFrom(a) ==
  {find_best_transfer(a, b).val[1] :
     b \in {c \in routes \ {a} : find_best_transfer(a, c).val # None}}

\* C27: the adjacency map computed with find_potential_intersections holds,
\* under every route, the transfer points that find_best_transfer returns
\* for the ordered pairs of that route with every other route.
C27_PruningKeepsEveryPair ==
  pcP = "built" =>
    \A a \in routes : Range(route_intersections[a]) = BestTransfersFrom(a)

\* no pair whose vertices are within the proximate threshold is pruned, and
\* every entry of the map is the best transfer of its pair
PruningKeepsProximate ==
  pcP = "built" =>
    \A a \in routes :
      /\ Range(route_intersections[a]) \subseteq BestTransfersFrom(a)
      /\ \A b \in routes \ {a} :
           ProximateQualifies(a, b) => b \in ComparedWith(a)

\* a map was built without the Direct transfer of two routes that share a
\* stop, the routes having no vertex in the widened bounding box of each
\* other
PrunedSharedStop ==
  /\ pcP = "built"
  /\ \E a \in routes : \E b \in routes \ {a} :
       /\ DirectQualifies(a, b)
       /\ b \notin ComparedWith(a)
       /\ find_best_transfer(a, b).val # None
       /\ RecordedFor(route_intersections[a], b) = {}

(***************************************************************************)
(* Claims about the termination of the search, checked under SpecSearch.   *)
(* Termination is shown by a variant: a natural number that every step of  *)
(* the search decreases, together with the absence of a state before the   *)
(* end in which the search has no step.                                    *)
(***************************************************************************)
\* the transfers taken along the path that is explored
TransfersTaken == IF stack = << >> THEN 0 ELSE Len(stack) - 1

\* how far the call of a frame has come: its entry, then the rounds of its
\* transfer loop, each before and after the recursive call
FrameProgress(frame) ==
  IF frame.phase = "enter" THEN 0
  ELSE IF frame.phase = "loop" THEN 2 * frame.idx - 1
  ELSE 2 * frame.idx

\* the progress of a call that has returned or was never made
ReturnedProgress == 2 * Cardinality(routes) + 1

\* the progress of the calls on the stack as the digits of a number, the
\* outermost call first
RECURSIVE StackProgress(_)
StackProgress(k) ==
  IF k > Cardinality(routes) THEN 0
  ELSE (IF k > Len(stack) THEN ReturnedProgress ELSE FrameProgress(stack[k]))
         * (ReturnedProgress + 1) ^ (Cardinality(routes) - k)
       + StackProgress(k + 1)

\* the variant: the start routes left and the progress left on the stack
WorkLeft ==
  IF pc = "done" THEN 0
  ELSE IF pc = "call" THEN (Cardinality(routes) + 3) * (ReturnedProgress + 1) ^ Cardinality(routes)
  ELSE (Cardinality(origin_routes) + 2) * (ReturnedProgress + 1) ^ Cardinality(routes)
         - StackProgress(1)

\* the guards of the steps of the search: one of them holds
SearchCanStep ==
  \/ pc = "call"
  \/ pc = "starts"
  \/ /\ pc = "explore"
     /\ stack # << >>
     /\ \/ Top.phase \in {"enter", "loop"}
        \/ /\ Top.phase = "after"
           /\ Top.route \in DOMAIN route_intersections
           /\ Top.idx \in 1..Len(route_intersections[Top.route])

\* C28: the recursive search terminates for every adjacency map, cycles
\* included, and every max_transfers, zero and negative included: every
\* step decreases a variant that is never negative, and there is a step
\* until the search is over; along a path the search never takes more
\* transfers than max_transfers (none when max_transfers is zero or
\* negative) nor more than the number of routes minus 1.
C28_SearchTerminates ==
  /\ [][WorkLeft' < WorkLeft]_vars
  /\ [](/\ WorkLeft >= 0
        /\ pc # "done" => SearchCanStep
        /\ Len(stack) <= Cardinality(routes)
        /\ TransfersTaken <= Cardinality(routes) - 1 \/ TransfersTaken = 0
        /\ TransfersTaken <= max_transfers \/ TransfersTaken = 0)

\* the search is one transfer deep on a route that has a transfer back to a
\* visited route, with transfers left
C28_Witness ==
  /\ pc = "explore"
  /\ Len(stack) >= 2
  /\ Top.phase = "loop"
  /\ Top.transfers_left > 0
  /\ Top.route \in DOMAIN route_intersections
  /\ Top.idx <= Len(route_intersections[Top.route])
  /\ route_intersections[Top.route][Top.idx].to_route \in visited

\* a search with a negative max_transfers is over
NegativeBudgetDone ==
  /\ pc = "done"
  /\ searched
  /\ max_transfers < 0

(***************************************************************************)
(* Claims about the plans the search cuts off, checked under SpecPlan.     *)
(***************************************************************************)
\* the score plan_route would give to a plan
PlanScore(plan) == calculate_plan_score(config, plan, route_validation.val[1])

\* C29: every plan plan_route returns has a score no greater than that of
\* any plan the search enumerated and plan_route did not return.
C29_CutKeepsBestScores ==
  (pcR = "done" /\ planned.ok) =>
    \A i \in 1..Len(planned.plans) : \A k \in 1..Len(all_plans) :
      all_plans[k] \notin Range(planned.plans) =>
        PlanScore(planned.plans[i]) <= PlanScore(all_plans[k])

\* the same of the plans the search handed to plan_route
CutKeepsBestOfHanded ==
  (pcR = "done" /\ planned.ok) =>
    \A i \in 1..Len(planned.plans) : \A k \in 1..Len(result.plans) :
      result.plans[k] \notin Range(planned.plans) =>
        PlanScore(planned.plans[i]) <= PlanScore(result.plans[k])

\* the segments of the plan are those of one path: each leads to the route
\* of the next
OnePath(plan) ==
  \A i \in 1..(Len(plan.routes) - 1) :
    plan.routes[i].transfer_point.to_route = plan.routes[i + 1].route

\* the search enumerated more plans than it hands on, and one it cut off
\* scores better than a plan plan_route returned, both with the segments
\* of one path
CutPlanScoresBetter ==
  /\ pcR = "done"
  /\ planned.ok
  /\ Len(all_plans) > SearchResultCap
  /\ \E i \in 1..Len(planned.plans) : \E k \in 1..Len(all_plans) :
       /\ all_plans[k] \notin Range(result.plans)
       /\ OnePath(all_plans[k])
       /\ OnePath(planned.plans[i])
       /\ PlanScore(all_plans[k]) < PlanScore(planned.plans[i])

(***************************************************************************)
(* Claims about stops without coordinates, checked under SpecPrecalc.      *)
(***************************************************************************)
\* the stop has neither latitude nor longitude
NoCoordinates(stop) == stop.latitud = None /\ stop.longitud = None

\* C30: the precomputation of the transfer points completes without
\* aborting for every stop dataset, stops without latitude and longitude
\* included, and no recorded Direct transfer is at a stop without
\* coordinates.
C30_PrecalcCompletes ==
  /\ pcP # "aborted"
  /\ pcP = "built" =>
       \A code \in DOMAIN route_intersections :
         \A tp \in Range(route_intersections[code]) :
           (tp.transfer_type = "Direct" /\ tp.bus_stop # None) =>
             ~NoCoordinates(tp.bus_stop[1])

\* the precomputation aborts only on two routes that each have a stop
\* without coordinates, in find_direct_transfer
AbortsOnMissingPairOnly ==
  pcP = "aborted" =>
    \E a, b \in routes :
      /\ a # b
      /\ find_direct_transfer(a, b).panic
      /\ \E i \in 1..Len(bus_stops(a)) : NoCoordinates(bus_stops(a)[i])
      /\ \E j \in 1..Len(bus_stops(b)) : NoCoordinates(bus_stops(b)[j])

\* the precomputation aborted on routes 3 and 4
PrecalcAborted ==
  /\ pcP = "aborted"
  /\ run = 1
  /\ {"3", "4"} \subseteq routes

====
